---- MODULE Spec2Model ----
(***************************************************************************)
(* Model of the constraint payload compiler (services/constraint_builder), *)
(* the configuration deep-merger (utils/utils.py) and the warehouse row    *)
(* builder with its run-identifier allocation (utils/output_mapping.py).   *)
(*                                                                         *)
(* Python strings are TLA+ strings.  str.upper, str.lower and str.replace  *)
(* are tabulated on the finite set of strings the compiler can meet (the   *)
(* eight channel labels of core/dto.py and what ChannelMapper makes of     *)
(* them).  Python dicts whose iteration order the code depends on are      *)
(* sequences of <<key, value>> pairs in insertion order.                   *)
(***************************************************************************)
EXTENDS Integers, Sequences, FiniteSets, TLC

VARIABLES
    bundle,      \* the DTOBundle handed to ConstraintBuilder.build
    payload,     \* what build returned for it (built = FALSE before the call)
    base,        \* the base document handed to deep_merge_configs
    incoming,    \* the incoming document handed to deep_merge_configs
    config_map,  \* the remap table: <<destination path, source path>> pairs
    result,      \* what deep_merge_configs returned (done = FALSE before the call)
    warehouse,   \* the rows stored in each of the three warehouse tables
    sub,         \* per submission: its position and what its review built
    now,         \* the clock datetime.now() reads
    form         \* the rows of the envelope form and what became of them

vars == <<bundle, payload, base, incoming, config_map, result, warehouse, sub, now,
          form>>

(***************************************************************************)
(* Bounds of the model.                                                    *)
(***************************************************************************)
MaxChannels == 2
MaxBrands == 3
MaxLeaves == 2
MaxDepth == 2
MaxRemapEntries == 1
MaxSubmissions == 2
MaxAttempts == 2
MaxRows == 2
MaxBoundValue == 2

(***************************************************************************)
(* core/dto.py and core/utils.py                                           *)
(***************************************************************************)
Channel ==
    {"F2F", "Remote", "Phone", "Meetings", "Virtual Meetings",
     "Whatsapp/Instant Message", "RTE-Open", "RTE-Sent"}

\* str.upper() on the strings the compiler meets
upper(s) ==
    CASE s = "Remote" -> "REMOTE"
      [] s = "Phone" -> "PHONE"
      [] s = "Meetings" -> "MEETINGS"
      [] s = "Virtual Meetings" -> "VIRTUAL MEETINGS"
      [] s = "Whatsapp/Instant Message" -> "WHATSAPP/INSTANT MESSAGE"
      [] s = "RTE-Open" -> "RTE-OPEN"
      [] s = "RTE-Sent" -> "RTE-SENT"
      [] s = "Monobrand" -> "MONOBRAND"
      [] s = "Multibrand" -> "MULTIBRAND"
      [] s = "DUPIXENT Asthma" -> "DUPIXENT ASTHMA"
      [] s = "DUPIXENT Copd" -> "DUPIXENT COPD"
      [] OTHER -> s

\* str.lower() on the channel labels
lower(s) ==
    CASE s = "F2F" -> "f2f"
      [] s = "Remote" -> "remote"
      [] s = "Phone" -> "phone"
      [] s = "Meetings" -> "meetings"
      [] s = "Virtual Meetings" -> "virtual meetings"
      [] s = "Whatsapp/Instant Message" -> "whatsapp/instant message"
      [] s = "RTE-Open" -> "rte-open"
      [] s = "RTE-Sent" -> "rte-sent"
      [] OTHER -> s

\* str.replace(" ", "_") on the strings the compiler meets
replace_space(s) ==
    CASE s = "VIRTUAL MEETINGS" -> "VIRTUAL_MEETINGS"
      [] s = "WHATSAPP/INSTANT MESSAGE" -> "WHATSAPP/INSTANT_MESSAGE"
      [] s = "TRIGGERED EMAIL" -> "TRIGGERED_EMAIL"
      [] OTHER -> s

\* ChannelMapper._map
ChannelMapper_map ==
    [k \in {"F2F", "REMOTE", "WHATSAPP/INSTANT MESSAGE", "RTE-OPEN", "RTE-SENT"} |->
        CASE k = "F2F" -> "FACE_TO_FACE"
          [] k = "REMOTE" -> "REMOTE_MEETING"
          [] k = "WHATSAPP/INSTANT MESSAGE" -> "WHATSAPP"
          [] k = "RTE-OPEN" -> "TRIGGERED_EMAIL"
          [] k = "RTE-SENT" -> "TRIGGERED EMAIL"]

\* ChannelMapper.canonical: cls._map.get(channel.upper(), channel.upper())
canonical(channel) ==
    IF upper(channel) \in DOMAIN ChannelMapper_map
    THEN ChannelMapper_map[upper(channel)]
    ELSE upper(channel)

\* itertools.combinations(s, r): the r-subsequences of s in lexicographic
\* order of their positions
RECURSIVE combinations(_, _)
combinations(s, r) ==
    IF r = 0 THEN << <<>> >>
    ELSE IF Len(s) < r THEN <<>>
    ELSE LET withHead == combinations(Tail(s), r - 1)
         IN  [i \in 1..Len(withHead) |-> <<Head(s)>> \o withHead[i]]
             \o combinations(Tail(s), r)

\* BrandCombinator.get_combinations: for r in range(2, len(brands) + 1)
RECURSIVE combinations_from(_, _)
combinations_from(brands, r) ==
    IF r > Len(brands) THEN <<>>
    ELSE combinations(brands, r) \o combinations_from(brands, r + 1)

\* get_combinations with range(2, len(brands)) for range(2, len(brands) + 1):
\* the combination of all the brands is left out
get_combinations_short(brands) ==
    LET all == combinations_from(brands, 2)
    IN  IF Len(brands) < 2 THEN all ELSE SubSeq(all, 1, Len(all) - 1)

\* get_combinations with range(1, len(brands) + 1) for range(2, ...): the
\* single brands come first
get_combinations_with_singles(brands) == combinations_from(brands, 1)

get_combinations(brands) == combinations_from(brands, 2)

(***************************************************************************)
(* services/constraint_builder.py                                          *)
(***************************************************************************)
\* brand_map = {brand: f'BRAND{i+1}' for i, brand in enumerate(brands)}
brand_map(brands) ==
    [b \in {brands[i] : i \in 1..Len(brands)} |->
        LET last == CHOOSE i \in 1..Len(brands) :
                        /\ brands[i] = b
                        /\ \A j \in 1..Len(brands) : brands[j] = b => j <= i
        IN  "BRAND" \o ToString(last)]

\* "_AND_".join(labels)
RECURSIVE join_and(_)
join_and(labels) ==
    IF Len(labels) = 0 THEN ""
    ELSE IF Len(labels) = 1 THEN labels[1]
    ELSE labels[1] \o "_AND_" \o join_and(Tail(labels))

\* f"REP_{mapped_channel}" of one channel of the bundle
channel_key(channel) == "REP_" \o replace_space(canonical(upper(channel)))

\* the monobrand interactions of one channel (lines 92-96)
monobrand_interactions(key, brands) ==
    LET bm == brand_map(brands)
    IN  [i \in 1..Len(brands) |-> key \o "_" \o bm[brands[i]]]

\* the multibrand interactions of one channel (lines 99-105)
multibrand_interactions(channel, key, b) ==
    LET bm == brand_map(b.brands)
        combos == get_combinations(b.brands)
    IN  IF \E i \in 1..Len(b.multibrand_channels) :
               lower(channel) = lower(b.multibrand_channels[i])
        THEN [i \in 1..Len(combos) |->
                 key \o "_" \o
                 join_and([j \in 1..Len(combos[i]) |-> bm[combos[i][j]]])]
        ELSE <<>>

\* the loop of _build_interaction_channels over bundle.capacity.channels,
\* from channel number i on; acc holds the three results built so far
RECURSIVE interaction_loop(_, _, _)
interaction_loop(b, i, acc) ==
    IF i > Len(b.channels) THEN acc
    ELSE LET channel == b.channels[i]
             key == channel_key(channel)
             found == monobrand_interactions(key, b.brands)
                      \o multibrand_interactions(channel, key, b)
         IN  interaction_loop(b, i + 1,
                 [interaction_channels |-> acc.interaction_channels \o found,
                  combined_interactions_dict |->
                      [k \in DOMAIN acc.combined_interactions_dict \cup {key} |->
                          IF k = key THEN found
                          ELSE acc.combined_interactions_dict[k]],
                  channel_rep_col |-> Append(acc.channel_rep_col, key)])

build_interaction_channels(b) ==
    interaction_loop(b, 1,
        [interaction_channels |-> <<>>,
         combined_interactions_dict |-> [k \in {} |-> <<>>],
         channel_rep_col |-> <<>>])

\* rep_channel.replace("REP_", "").upper(): no canonical token holds "REP_"
strip_rep(rep_channel) ==
    upper(CHOOSE t \in {replace_space(canonical(upper(c))) : c \in Channel} :
              "REP_" \o t = rep_channel)

\* the for/else search of lines 168-173 through daily_capacity.items()
RECURSIVE capacity_lookup(_, _, _)
capacity_lookup(daily_capacity, raw_label, i) ==
    IF i > Len(daily_capacity) THEN 0
    ELSE IF canonical(daily_capacity[i][1]) = raw_label THEN daily_capacity[i][2]
    ELSE capacity_lookup(daily_capacity, raw_label, i + 1)

\* int(x / y) of Python: the quotient truncated towards zero
int_div(x, y) ==
    IF (x >= 0) = (y > 0) THEN x \div y ELSE -((-x) \div y)

\* the value _build_capacity_constraints stores for one REP_ key
capacity_of(b, rep_channel) ==
    LET raw_label == canonical(strip_rep(rep_channel))
        value == capacity_lookup(b.daily_capacity, raw_label, 1)
    IN  int_div(value * b.working_days, b.months)

\* _build_capacity_constraints: {sales_line: {rep_channel: int}}
build_capacity_constraints(b, channel_rep_col) ==
    [sl \in {b.sales_line} |->
        [k \in {channel_rep_col[i] : i \in 1..Len(channel_rep_col)} |->
            capacity_of(b, k)]]

\* _transform_hcp_bounds: return {}
transform_hcp_bounds(hcp_bounds, interaction_channels) == <<>>

\* _transform_hcp_segments: return {}
transform_hcp_segments(hcp_segments) == <<>>

\* an optional list of the bundle (List[...] | None): None, or the list
NoList == [is_none |-> TRUE, items |-> <<>>]
ListOf(items) == [is_none |-> FALSE, items |-> items]

\* DTOBundle.uses_segment_matrix: envelopes_seg is not None
uses_segment_matrix(b) == ~b.envelopes_seg.is_none

\* _build_constraints: the dict {"ENVELOPE_RULES": ...}
build_constraints(b, interaction_channels) ==
    IF uses_segment_matrix(b)
    THEN [ENVELOPE_RULES |-> transform_hcp_segments(b.envelopes_seg.items)]
    ELSE [ENVELOPE_RULES |-> transform_hcp_bounds(b.envelopes_hist.items,
                                                  interaction_channels)]

\* bool(bundle.non_prescriber): neither None nor the empty list
truthy(rules) == ~rules.is_none /\ Len(rules.items) > 0

\* _build_non_prescriber_constraints: one key per rule, a later rule of the
\* same channel key replacing the value of an earlier one in place
RECURSIVE non_prescriber_loop(_, _, _)
non_prescriber_loop(rules, i, acc) ==
    IF i > Len(rules) THEN acc
    ELSE LET key == "REP_" \o canonical(rules[i].channel)
             value == <<rules[i].rule.min_val, rules[i].rule.max_val>>
             at == {j \in 1..Len(acc) : acc[j][1] = key}
         IN  non_prescriber_loop(rules, i + 1,
                 IF at = {} THEN Append(acc, <<key, value>>)
                 ELSE [j \in 1..Len(acc) |->
                          IF j \in at THEN <<key, value>> ELSE acc[j]])

build_non_prescriber_constraints(b) ==
    non_prescriber_loop(b.non_prescriber.items, 1, <<>>)

\* the keys of the dict literal of lines 41-66
result_keys ==
    {"country_code", "country", "brand", "all_channel_cols", "interaction_channels",
     "channel_cols", "channel_cols_all", "feature_list", "multibrand_data",
     "max_country", "occp_length", "months_to_optimize", "actual_date_range",
     "CYCLE_NAME", "CYCLE_START_DATE", "CYCLE_END_DATE", "e_consent",
     "combined_interactions_dict", "n_months", "channel_brand_dict",
     "capacity_constraints", "constraints", "is_non_prescriber",
     "non_prescribers_priority"}

\* what build leaves when it raises, and before it is called
NoPayload ==
    [built |-> FALSE, raised |-> FALSE,
     keys |-> {},
     interaction_channels |-> <<>>,
     combined_interactions_dict |-> [k \in {} |-> <<>>],
     channel_rep_col |-> <<>>,
     capacity_constraints |-> [k \in {} |-> <<>>],
     constraints |-> [ENVELOPE_RULES |-> <<>>],
     multibrand_data |-> FALSE,
     NON_PRESCRIBERS_ENVELOPE_RULES |-> <<>>]

\* build with the NON_PRESCRIBERS_ENVELOPE_RULES key added whenever
\* non_prescriber is not None, the empty list included
build_non_prescriber_not_none(b) ==
    LET ic == build_interaction_channels(b)
    IN  IF b.months = 0 /\ Len(ic.channel_rep_col) > 0
        THEN [NoPayload EXCEPT !.built = TRUE, !.raised = TRUE]
        ELSE [built |-> TRUE, raised |-> FALSE,
              keys |-> result_keys \cup
                       (IF ~b.non_prescriber.is_none
                        THEN {"NON_PRESCRIBERS_ENVELOPE_RULES"} ELSE {}),
              interaction_channels |-> ic.interaction_channels,
              combined_interactions_dict |-> ic.combined_interactions_dict,
              channel_rep_col |-> ic.channel_rep_col,
              capacity_constraints |->
                  build_capacity_constraints(b, ic.channel_rep_col),
              constraints |-> build_constraints(b, ic.interaction_channels),
              multibrand_data |-> (b.mode # "Monobrand"),
              NON_PRESCRIBERS_ENVELOPE_RULES |->
                  IF truthy(b.non_prescriber)
                  THEN build_non_prescriber_constraints(b) ELSE <<>>]

\* build with the division of a 0-month cycle clamped to 0: no error
build_clamped(b) ==
    LET ic == build_interaction_channels(b)
    IN  [built |-> TRUE, raised |-> FALSE,
         keys |-> result_keys \cup
                  (IF truthy(b.non_prescriber)
                   THEN {"NON_PRESCRIBERS_ENVELOPE_RULES"} ELSE {}),
         interaction_channels |-> ic.interaction_channels,
         combined_interactions_dict |-> ic.combined_interactions_dict,
         channel_rep_col |-> ic.channel_rep_col,
         capacity_constraints |->
             IF b.months = 0
             THEN [sl \in {b.sales_line} |->
                      [k \in {ic.channel_rep_col[i] : i \in 1..Len(ic.channel_rep_col)} |-> 0]]
             ELSE build_capacity_constraints(b, ic.channel_rep_col),
         constraints |-> build_constraints(b, ic.interaction_channels),
         multibrand_data |-> (b.mode # "Monobrand"),
         NON_PRESCRIBERS_ENVELOPE_RULES |->
             IF truthy(b.non_prescriber)
             THEN build_non_prescriber_constraints(b) ELSE <<>>]

\* ConstraintBuilder.build: the part of the payload the claims are about.
\* The division of _build_capacity_constraints raises ZeroDivisionError when
\* the cycle has 0 months and a channel is selected: nothing is returned.
build(b) ==
    LET ic == build_interaction_channels(b)
    IN  IF b.months = 0 /\ Len(ic.channel_rep_col) > 0
        THEN [NoPayload EXCEPT !.built = TRUE, !.raised = TRUE]
        ELSE [built |-> TRUE, raised |-> FALSE,
              keys |-> result_keys \cup
                       (IF truthy(b.non_prescriber)
                        THEN {"NON_PRESCRIBERS_ENVELOPE_RULES"} ELSE {}),
              interaction_channels |-> ic.interaction_channels,
              combined_interactions_dict |-> ic.combined_interactions_dict,
              channel_rep_col |-> ic.channel_rep_col,
              capacity_constraints |->
                  build_capacity_constraints(b, ic.channel_rep_col),
              constraints |-> build_constraints(b, ic.interaction_channels),
              multibrand_data |-> (b.mode # "Monobrand"),
              NON_PRESCRIBERS_ENVELOPE_RULES |->
                  IF truthy(b.non_prescriber)
                  THEN build_non_prescriber_constraints(b) ELSE <<>>]

(***************************************************************************)
(* utils/utils.py: the configuration deep-merger.                          *)
(*                                                                         *)
(* A document node is a record: kind "leaf" (a scalar, val), "none"        *)
(* (None), "map" (a dict: items is the sequence of <<key, node>> pairs in  *)
(* insertion order) or "list" (items is the sequence of <<"", node>>).     *)
(* Keys are strings; a dotted path is the sequence of its segments, which  *)
(* is what path.split(".") makes of it.  Values are copied, never shared,  *)
(* so the model is exact for remap tables in which no destination is a     *)
(* prefix of another one.                                                  *)
(***************************************************************************)
Leaf(v) == [kind |-> "leaf", val |-> v, items |-> <<>>]
NoneNode == [kind |-> "none", val |-> 0, items |-> <<>>]
Map(items) == [kind |-> "map", val |-> 0, items |-> items]
List(items) == [kind |-> "list", val |-> 0, items |-> items]
EmptyMap == Map(<<>>)

\* the position of key k in a dict's items, 0 when the dict has no such key
RECURSIVE key_index(_, _, _)
key_index(items, k, i) ==
    IF i > Len(items) THEN 0
    ELSE IF items[i][1] = k THEN i
    ELSE key_index(items, k, i + 1)

has_key(node, k) == key_index(node.items, k, 1) > 0

\* d[k] of a dict that has the key
dict_at(node, k) == node.items[key_index(node.items, k, 1)][2]

\* d[k] = v: an existing key keeps its place, a new key goes last
dict_set(node, k, v) ==
    LET j == key_index(node.items, k, 1)
    IN  IF j > 0
        THEN Map([i \in 1..Len(node.items) |->
                     IF i = j THEN <<k, v>> ELSE node.items[i]])
        ELSE Map(Append(node.items, <<k, v>>))

\* norm of deep_merge_configs with case_insensitive = False: str(k)
norm(k) == k

\* get_value_at_path: raised is the AttributeError of calling .get on a
\* value that is no dict
RECURSIVE get_value_at_path(_, _)
get_value_at_path(dictionary, keys) ==
    IF Len(keys) = 0 THEN [raised |-> FALSE, value |-> dictionary]
    ELSE IF dictionary.kind # "map" THEN [raised |-> TRUE, value |-> NoneNode]
    ELSE LET next == IF has_key(dictionary, Head(keys))
                     THEN dict_at(dictionary, Head(keys))
                     ELSE EmptyMap
         IN  IF next.kind = "none" THEN [raised |-> FALSE, value |-> NoneNode]
             ELSE get_value_at_path(next, Tail(keys))

\* set_value_at_path: raised is the AttributeError of .setdefault, or the
\* TypeError of the item assignment, on a value that is no dict
RECURSIVE set_value_at_path(_, _, _)
set_value_at_path(dictionary, keys, value) ==
    IF dictionary.kind # "map" THEN [raised |-> TRUE, value |-> dictionary]
    ELSE IF Len(keys) = 1
    THEN [raised |-> FALSE, value |-> dict_set(dictionary, Head(keys), value)]
    ELSE LET child == IF has_key(dictionary, Head(keys))
                      THEN dict_at(dictionary, Head(keys))
                      ELSE EmptyMap
             r == set_value_at_path(child, Tail(keys), value)
         IN  [raised |-> r.raised,
              value |-> dict_set(dictionary, Head(keys), r.value)]

\* _leaves: (path, value) of every non-mapping leaf under node, in order
RECURSIVE leaves(_, _)
RECURSIVE leaves_from(_, _, _)
leaves(path, node) ==
    IF node.kind = "map" THEN leaves_from(path, node, 1)
    ELSE << <<path, node>> >>

leaves_from(path, node, i) ==
    IF i > Len(node.items) THEN <<>>
    ELSE leaves(Append(path, norm(node.items[i][1])), node.items[i][2])
         \o leaves_from(path, node, i + 1)

\* _propagate and propagate_in_sequence, returning the updated node
RECURSIVE propagate(_, _, _)
RECURSIVE propagate_item(_, _, _)
RECURSIVE propagate_in_sequence(_, _, _)
propagate(node, path, value) ==
    IF Len(path) = 0 \/ node.kind # "map" THEN node
    ELSE Map([i \in 1..Len(node.items) |->
                 <<node.items[i][1], propagate_item(node.items[i], path, value)>>])

\* one turn of the loop of _propagate over node.items()
propagate_item(item, path, value) ==
    LET key == item[1]
        val == item[2]
        head == Head(path)
        tail == Tail(path)
    IN  IF norm(key) = head /\ Len(tail) = 0 THEN value
        ELSE LET v1 == IF norm(key) = head THEN propagate(val, tail, value) ELSE val
                 v2 == IF val.kind = "map" THEN propagate(v1, path, value) ELSE v1
             IN  IF val.kind = "list" THEN propagate_in_sequence(v2, path, value)
                 ELSE v2

propagate_in_sequence(seq, path, value) ==
    List([i \in 1..Len(seq.items) |->
             IF seq.items[i][2].kind = "map"
             THEN <<"", propagate(seq.items[i][2], path, value)>>
             ELSE seq.items[i]])

\* the first key of dst whose norm is k_norm, at or after place i; 0 if none
RECURSIVE norm_index(_, _, _)
norm_index(items, k_norm, i) ==
    IF i > Len(items) THEN 0
    ELSE IF norm(items[i][1]) = k_norm THEN i
    ELSE norm_index(items, k_norm, i + 1)

\* _merge from item i of src on: the merged dst and the pending list
RECURSIVE merge_from(_, _, _, _, _)
merge_from(dst, src, i, cur, pending) ==
    IF i > Len(src.items) THEN [dst |-> dst, pending |-> pending \o leaves(cur, src)]
    ELSE LET k_src == src.items[i][1]
             v_src == src.items[i][2]
             k_norm == norm(k_src)
             j == norm_index(dst.items, k_norm, 1)
             k_dst == IF j > 0 THEN dst.items[j][1] ELSE k_src
         IN  IF v_src.kind = "map" /\ j > 0 /\ dst.items[j][2].kind = "map"
             THEN LET r == merge_from(dst.items[j][2], v_src, 1,
                                      Append(cur, k_norm), pending)
                  IN  merge_from(dict_set(dst, k_dst, r.dst), src, i + 1, cur, r.pending)
             ELSE merge_from(dict_set(dst, k_dst, v_src), src, i + 1, cur, pending)

merge(dst, src) == merge_from(dst, src, 1, <<>>, <<>>)

\* deep_merge_configs reduced to the structural merge: the recorded leaf
\* updates are never fanned out
propagate_skipped(res, pending, i) == res

\* for path, val in pending: _propagate(result, path, val, norm)
RECURSIVE propagate_all(_, _, _)
propagate_all(res, pending, i) ==
    IF i > Len(pending) THEN res
    ELSE propagate_all(propagate(res, pending[i][1], pending[i][2]), pending, i + 1)

\* the tree after the structural merge and the leaf propagation (lines 308-312)
merge_and_propagate(bas, inc) ==
    LET m == merge(bas, inc)
    IN  propagate_all(m.dst, m.pending, 1)

\* the remap loop of lines 313-316 from entry i of config_map on
RECURSIVE remap_from(_, _, _, _)
remap_from(res, inc, cmap, i) ==
    IF i > Len(cmap) THEN [raised |-> FALSE, value |-> res]
    ELSE LET got == get_value_at_path(inc, cmap[i][2])
         IN  IF got.raised THEN [raised |-> TRUE, value |-> res]
             ELSE IF got.value.kind = "none" THEN remap_from(res, inc, cmap, i + 1)
             ELSE LET put == set_value_at_path(res, cmap[i][1], got.value)
                  IN  IF put.raised THEN [raised |-> TRUE, value |-> res]
                      ELSE remap_from(put.value, inc, cmap, i + 1)

\* deep_merge_configs with the remap sources looked up in the merged result
\* instead of in incoming
deep_merge_configs_from_result(bas, inc, cmap) ==
    LET merged == merge_and_propagate(bas, inc)
    IN  remap_from(merged, merged, cmap, 1)

\* deep_merge_configs(bas, incoming) under the remap table cmap
deep_merge_configs(bas, inc, cmap) ==
    remap_from(merge_and_propagate(bas, inc), inc, cmap, 1)

\* The remap loop once more, with the identity of the objects it moves.
\* get_value_at_path returns the object it finds, and set_value_at_path
\* stores it as it is: a dict or list taken from incoming is then one object
\* held by incoming and by the result.  Alias(path) stands for the object
\* that incoming holds at path.
Alias(path) == [kind |-> "alias", val |-> 0, items |-> path]

\* keys leads through dicts of node to a value
RECURSIVE path_exists(_, _)
path_exists(node, keys) ==
    IF Len(keys) = 0 THEN TRUE
    ELSE /\ node.kind = "map"
         /\ has_key(node, Head(keys))
         /\ path_exists(dict_at(node, Head(keys)), Tail(keys))

\* the value keys leads to
RECURSIVE node_at(_, _)
node_at(node, keys) ==
    IF Len(keys) = 0 THEN node ELSE node_at(dict_at(node, Head(keys)), Tail(keys))

\* node with the value at keys replaced by v
RECURSIVE replace_at(_, _, _)
replace_at(node, keys, v) ==
    IF Len(keys) = 0 THEN v
    ELSE dict_set(node, Head(keys),
                  replace_at(dict_at(node, Head(keys)), Tail(keys), v))

\* what get_value_at_path(incoming, keys) returns: the dict or list that
\* incoming holds there, or a value that is shared with nothing (a scalar,
\* None, the {} of a missing key)
get_object_at_path(inc, keys) ==
    LET got == get_value_at_path(inc, keys)
    IN  IF ~got.raised /\ path_exists(inc, keys) /\ got.value.kind \in {"map", "list"}
        THEN [raised |-> FALSE, value |-> Alias(keys)]
        ELSE got

\* set_value_at_path(result, keys, value) when the walk may enter an object
\* of incoming: from there on the setdefault calls and the assignment change
\* incoming
RECURSIVE set_object_at_path(_, _, _, _)
set_object_at_path(dictionary, inc, keys, value) ==
    IF dictionary.kind = "alias"
    THEN LET put == set_value_at_path(node_at(inc, dictionary.items), keys, value)
         IN  [raised |-> put.raised, value |-> dictionary,
              incoming |-> replace_at(inc, dictionary.items, put.value)]
    ELSE IF dictionary.kind # "map"
    THEN [raised |-> TRUE, value |-> dictionary, incoming |-> inc]
    ELSE IF Len(keys) = 1
    THEN [raised |-> FALSE, value |-> dict_set(dictionary, Head(keys), value),
          incoming |-> inc]
    ELSE LET child == IF has_key(dictionary, Head(keys))
                      THEN dict_at(dictionary, Head(keys))
                      ELSE EmptyMap
             r == set_object_at_path(child, inc, Tail(keys), value)
         IN  [raised |-> r.raised,
              value |-> dict_set(dictionary, Head(keys), r.value),
              incoming |-> r.incoming]

\* the remap loop of lines 313-316 from entry i on: the result and what
\* has become of incoming
RECURSIVE remap_objects_from(_, _, _, _)
remap_objects_from(res, inc, cmap, i) ==
    IF i > Len(cmap) THEN [raised |-> FALSE, value |-> res, incoming |-> inc]
    ELSE LET got == get_object_at_path(inc, cmap[i][2])
         IN  IF got.raised THEN [raised |-> TRUE, value |-> res, incoming |-> inc]
             ELSE IF got.value.kind = "none" THEN remap_objects_from(res, inc, cmap, i + 1)
             ELSE LET put == set_object_at_path(res, inc, cmap[i][1], got.value)
                  IN  IF put.raised
                      THEN [raised |-> TRUE, value |-> res, incoming |-> put.incoming]
                      ELSE remap_objects_from(put.value, put.incoming, cmap, i + 1)

\* deep_merge_configs with the objects of the remap loop: the merge and the
\* propagation deep-copy what they store
deep_merge_objects(bas, inc, cmap) ==
    remap_objects_from(merge_and_propagate(bas, inc), inc, cmap, 1)

NoResult == [done |-> FALSE, raised |-> FALSE, value |-> EmptyMap]

(***************************************************************************)
(* utils/output_mapping.py: the warehouse row builder.                     *)
(*                                                                         *)
(* A run identifier "C_<digits>" is the sequence of its digits, so that    *)
(* the string order SQL's MAX(ID) uses and the integer the regular         *)
(* expression C_(\d+) extracts are both computed from it.  A data frame is *)
(* the sequence of its rows, a row a record of its columns; None is the    *)
(* string "None".  The form data is a record of the values get_value       *)
(* extracts from it.                                                       *)
(***************************************************************************)
IdWidth == 7

\* the least element of a non-empty set of integers: the first matching row
first_of(S) == CHOOSE x \in S : \A y \in S : x <= y

\* str(n) for n >= 0, digit by digit
RECURSIVE digits_of(_)
digits_of(n) == IF n < 10 THEN <<n>> ELSE digits_of(n \div 10) \o <<n % 10>>

\* the format specification 0<w>d: zeros on the left up to width w, never
\* a truncation
RECURSIVE zero_pad(_, _)
zero_pad(ds, w) == IF Len(ds) >= w THEN ds ELSE zero_pad(<<0>> \o ds, w)

\* next_id = f"C_{starting_id:07d}"
format_id(starting_id) == zero_pad(digits_of(starting_id), IdWidth)

\* int(match.group(1))
RECURSIVE int_of(_)
int_of(ds) ==
    IF Len(ds) = 0 THEN 0
    ELSE 10 * int_of(SubSeq(ds, 1, Len(ds) - 1)) + ds[Len(ds)]

\* a < b in the order of strings
RECURSIVE str_less(_, _)
str_less(a, b) ==
    IF Len(b) = 0 THEN FALSE
    ELSE IF Len(a) = 0 THEN TRUE
    ELSE IF Head(a) # Head(b) THEN Head(a) < Head(b)
    ELSE str_less(Tail(a), Tail(b))

\* SELECT MAX(ID) AS MAX_ID FROM table: <<>> stands for NULL
sql_max_id(rows) ==
    IF Len(rows) = 0 THEN <<>>
    ELSE CHOOSE m \in {rows[i].ID : i \in 1..Len(rows)} :
             \A i \in 1..Len(rows) : ~str_less(m, rows[i].ID)

\* get_latest_id_from_snowflake: the next integer to use
get_latest_id_from_snowflake(rows) ==
    LET max_id == sql_max_id(rows)
    IN  IF max_id = <<>> THEN 1 ELSE int_of(max_id) + 1

\* the reference tables DS_BRAND, DS_CHANNEL, DS_SALES_LINE, DS_MASTER and
\* the time dimension the lookups read.  DUPIXENT has a row per indication
\* (ASTHMA only), RTE WITHOUT CONSENT and PHONE have no channel row, the
\* DUPIXENT sales line has a fact for FACE TO FACE only.
df_brand ==
    << [GLOBAL_BRAND |-> "SOLIQUA", INDICATION_NAME |-> "None", BRAND_ID |-> 1],
       [GLOBAL_BRAND |-> "TOUJEO", INDICATION_NAME |-> "None", BRAND_ID |-> 2],
       [GLOBAL_BRAND |-> "DUPIXENT", INDICATION_NAME |-> "ASTHMA", BRAND_ID |-> 3] >>

df_channel ==
    << [CHANNEL |-> "FACE TO FACE", CHANNEL_ID |-> 1],
       [CHANNEL |-> "REMOTE", CHANNEL_ID |-> 2],
       [CHANNEL |-> "RTE WITH CONSENT", CHANNEL_ID |-> 3] >>

df_sales_line ==
    << [ID |-> 1, BRAND_ID |-> 1, SALES_TEAM |-> "SL", OCCP_TYPE |-> "MONOBRAND"],
       [ID |-> 2, BRAND_ID |-> 2, SALES_TEAM |-> "SL", OCCP_TYPE |-> "MONOBRAND"],
       [ID |-> 3, BRAND_ID |-> 1, SALES_TEAM |-> "SL", OCCP_TYPE |-> "MULTIBRAND"],
       [ID |-> 4, BRAND_ID |-> 2, SALES_TEAM |-> "SL", OCCP_TYPE |-> "MULTIBRAND"],
       [ID |-> 5, BRAND_ID |-> 3, SALES_TEAM |-> "SL", OCCP_TYPE |-> "MONOBRAND"] >>

df_master ==
    [k \in 1..13 |->
        IF k <= 12
        THEN [M_ID |-> k, SALES_TABLE_ID |-> ((k - 1) \div 3) + 1,
              CHANNEL_ID |-> ((k - 1) % 3) + 1]
        ELSE [M_ID |-> k, SALES_TABLE_ID |-> 5, CHANNEL_ID |-> 1]]

df_time ==
    << [CYCLE_START_DATE |-> "2026-01", CYCLE_ID |-> 1],
       [CYCLE_START_DATE |-> "2026-04", CYCLE_ID |-> 2] >>

\* map_channels_with_consent.CHANNEL_NAME_MAP
CHANNEL_NAME_MAP ==
    [k \in {"F2F", "Remote", "Phone", "Meetings", "Virtual Meetings",
            "VIRTUAL_MEETINGS", "WHATSAPP/INSTANT_MESSAGE",
            "Whatsapp/Instant Message", "RTE-Open", "RTE-OPEN", "RTE-Sent",
            "RTE-SENT"} |->
        CASE k = "F2F" -> "FACE TO FACE"
          [] k = "Remote" -> "REMOTE"
          [] k = "Phone" -> "PHONE"
          [] k = "Meetings" -> "MEETINGS"
          [] k \in {"Virtual Meetings", "VIRTUAL_MEETINGS"} -> "VIRTUAL MEETINGS"
          [] k \in {"WHATSAPP/INSTANT_MESSAGE", "Whatsapp/Instant Message"} ->
                 "WHATSAPP/INSTANT MESSAGE"
          [] OTHER -> "RTE"]

\* map_channels_with_consent with the consent label fixed to RTE WITH
\* CONSENT: the e-consent flag is not read
map_channels_ignoring_consent(ui_channels, econsent) ==
    LET mapped == [i \in 1..Len(ui_channels) |->
                      IF ui_channels[i] \in DOMAIN CHANNEL_NAME_MAP
                      THEN CHANNEL_NAME_MAP[ui_channels[i]] ELSE ui_channels[i]]
    IN  [i \in 1..Len(mapped) |->
            IF mapped[i] = "RTE" THEN "RTE WITH CONSENT" ELSE mapped[i]]

\* map_channels_with_consent
map_channels_with_consent(ui_channels, econsent) ==
    LET mapped == [i \in 1..Len(ui_channels) |->
                      IF ui_channels[i] \in DOMAIN CHANNEL_NAME_MAP
                      THEN CHANNEL_NAME_MAP[ui_channels[i]] ELSE ui_channels[i]]
        consent_channel == IF econsent THEN "RTE WITH CONSENT"
                           ELSE "RTE WITHOUT CONSENT"
    IN  [i \in 1..Len(mapped) |->
            IF mapped[i] = "RTE" THEN consent_channel ELSE mapped[i]]

\* what a lookup ends in: the id it returns, or the exception it raises with
\* the identifiers its message holds
Found(v) == [raised |-> FALSE, error |-> "None", names |-> {}, value |-> v]
Raised(error, names) == [raised |-> TRUE, error |-> error, names |-> names, value |-> 0]

\* get_channel_id: ValueError(f"Channel '{channel_name}' not found in
\* DS_CHANNEL.") when no row matches
get_channel_id(channel_name) ==
    LET hits == {i \in 1..Len(df_channel) : upper(df_channel[i].CHANNEL) = upper(channel_name)}
    IN  IF hits = {} THEN Raised("ValueError", {upper(channel_name)})
        ELSE Found(df_channel[first_of(hits)].CHANNEL_ID)

\* brand_name.startswith("DUPIXENT") and brand_name.split(" ", 1) on the
\* upper-cased brand names: <<>> when the name does not start with DUPIXENT
dupixent_parts(brand_name) ==
    CASE brand_name = "DUPIXENT" -> <<"DUPIXENT">>
      [] brand_name = "DUPIXENT ASTHMA" -> <<"DUPIXENT", "ASTHMA">>
      [] brand_name = "DUPIXENT COPD" -> <<"DUPIXENT", "COPD">>
      [] OTHER -> <<>>

\* get_brand_id.  A brand that starts with DUPIXENT is matched on
\* GLOBAL_BRAND (and on INDICATION_NAME when an indication follows); on a
\* miss the code calls st.error, and the module imports no st: NameError.
\* Any other brand: ValueError(f"Brand '{brand_name}' not found in DS_BRAND.")
get_brand_id(brand_name) ==
    LET name == upper(brand_name)
        parts == dupixent_parts(name)
        hits == {i \in 1..Len(df_brand) :
                    IF Len(parts) = 0 THEN upper(df_brand[i].GLOBAL_BRAND) = name
                    ELSE /\ upper(df_brand[i].GLOBAL_BRAND) = "DUPIXENT"
                         /\ Len(parts) > 1 =>
                                upper(df_brand[i].INDICATION_NAME) = parts[2]}
    IN  IF hits # {} THEN Found(df_brand[first_of(hits)].BRAND_ID)
        ELSE IF Len(parts) = 0 THEN Raised("ValueError", {name})
        ELSE Raised("NameError", {"st"})

\* get_sales_table_id: ValueError naming brand_id, sales_line and occp_type
get_sales_table_id(sales_line, brand_id, occp_type) ==
    LET filtered == {i \in 1..Len(df_sales_line) :
                        /\ df_sales_line[i].BRAND_ID = brand_id
                        /\ df_sales_line[i].SALES_TEAM = sales_line
                        /\ df_sales_line[i].OCCP_TYPE = upper(occp_type)}
    IN  IF filtered = {}
        THEN Raised("ValueError", {ToString(brand_id), sales_line, occp_type})
        ELSE Found(df_sales_line[first_of(filtered)].ID)

\* get_fact_id: ValueError naming sales_table_id and channel_id
get_fact_id(sales_table_id, channel_id) ==
    LET hits == {i \in 1..Len(df_master) :
                    /\ df_master[i].SALES_TABLE_ID = sales_table_id
                    /\ df_master[i].CHANNEL_ID = channel_id}
    IN  IF hits = {}
        THEN Raised("ValueError", {ToString(sales_table_id), ToString(channel_id)})
        ELSE Found(df_master[first_of(hits)].M_ID)

\* get_time_id on the month a cycle starts in: ValueError(f"No matching
\* CYCLE_ID for {date_str} ({input_date})")
get_time_id(date_str) ==
    LET hits == {i \in 1..Len(df_time) : df_time[i].CYCLE_START_DATE = date_str}
    IN  IF hits = {} THEN Raised("ValueError", {date_str})
        ELSE Found(df_time[first_of(hits)].CYCLE_ID)

\* get_fact_id(get_sales_table_id(sales_line, brand_id, occp_type), channel_id)
fact_of(sales_line, brand_id, occp_type, channel_id) ==
    LET sales_table_id == get_sales_table_id(sales_line, brand_id, occp_type)
    IN  IF sales_table_id.raised THEN sales_table_id
        ELSE get_fact_id(sales_table_id.value, channel_id)

\* the audit columns every row ends with
audit(ETL_INSERT) ==
    [ETL_LOAD_ID |-> ETL_INSERT, ETL_INSERT |-> ETL_INSERT, ETL_UPDATE |-> "None",
     MOST_RECENT_FLAG |-> "Y"]

\* business_constraints_rows: for brand_id in brand_ids, for each channel
business_constraints_rows(data, sales_line, next_id, ETL_INSERT) ==
    LET mapped_channels == map_channels_with_consent(data.channels, data.econsent)
        nc == Len(data.channels)
    IN  [k \in 1..(Len(data.brands) * nc) |->
            LET brand_id == get_brand_id(data.brands[((k - 1) \div nc) + 1])
                channel_id == get_channel_id(mapped_channels[((k - 1) % nc) + 1])
                fact_id == fact_of(sales_line, brand_id.value, data.occp_type,
                                   channel_id.value)
            IN  [raised |-> brand_id.raised \/ channel_id.raised \/ fact_id.raised,
                 row |-> [ID |-> next_id,
                          FACT_ID |-> fact_id.value,
                          UPCOMING_TIME_ID |-> get_time_id(data.cycle_start).value,
                          REFERENCE_TIME_ID |-> get_time_id(data.ref_cycle_start).value,
                          AVG_REP_CAPACITY |-> data.avg_rep_capacity]
                         @@ audit(ETL_INSERT)]]

\* brand_specific_rows: only when len(brands) > 1; no ID column is set
brand_specific_rows(data, ETL_INSERT) ==
    IF Len(data.brands) > 1
    THEN [i \in 1..Len(data.brands) |->
             LET brand_id == get_brand_id(data.brands[i])
             IN  [raised |-> brand_id.raised,
                  row |-> [BRAND_ID |-> brand_id.value,
                           BRAND_DISTRIBUTION |-> data.brand_distribution,
                           SPECIALTIES |-> data.specialties,
                           FILE_FORMAT |-> data.file_format]
                          @@ audit(ETL_INSERT)]]
    ELSE <<>>

\* build_hcp_constraints_rows: for each envelope row, for brand_id in brand_ids
build_hcp_constraints_rows(data, sales_line, next_id, ETL_INSERT) ==
    LET nb == Len(data.brands)
    IN  [k \in 1..(Len(data.envelope) * nb) |->
            LET row == data.envelope[((k - 1) \div nb) + 1]
                mapped_channel == map_channels_with_consent(<<row.CHANNEL>>, data.econsent)[1]
                channel_id == get_channel_id(mapped_channel)
                brand_id == get_brand_id(data.brands[((k - 1) % nb) + 1])
                fact_id == fact_of(sales_line, brand_id.value, data.occp_type,
                                   channel_id.value)
            IN  [raised |-> brand_id.raised \/ channel_id.raised \/ fact_id.raised,
                 row |-> [ID |-> next_id,
                          FACT_ID |-> fact_id.value,
                          UPCOMING_TIME_ID |-> get_time_id(data.cycle_start).value,
                          REFERENCE_TIME_ID |-> get_time_id(data.ref_cycle_start).value,
                          REF_CYCLE_ACTUAL |-> row.SEGMENT,
                          MIN_VAL |-> row.MIN_VALUE,
                          MAX_VAL |-> row.MAX_VALUE]
                         @@ audit(ETL_INSERT)]]

\* the concatenation of a sequence of sequences
RECURSIVE concat(_)
concat(seqs) == IF Len(seqs) = 0 THEN <<>> ELSE Head(seqs) \o concat(Tail(seqs))

\* the lookups create_business_constraints_file makes, in the order it
\* makes them: the two time ids, the brand ids, the channel ids, then per
\* brand the sales table id and a fact id per channel, then per envelope
\* row the channel id and per brand the sales table id and the fact id
lookups(data, sales_line) ==
    LET mapped_channels == map_channels_with_consent(data.channels, data.econsent)
        brand_ids == [i \in 1..Len(data.brands) |-> get_brand_id(data.brands[i])]
        channel_ids == [i \in 1..Len(mapped_channels) |-> get_channel_id(mapped_channels[i])]
        sales(i) == get_sales_table_id(sales_line, brand_ids[i].value, data.occp_type)
        business ==
            concat([i \in 1..Len(data.brands) |->
                       <<sales(i)>> \o
                       [j \in 1..Len(channel_ids) |->
                           get_fact_id(sales(i).value, channel_ids[j].value)]])
        hcp ==
            concat([e \in 1..Len(data.envelope) |->
                       LET channel_id ==
                               get_channel_id(map_channels_with_consent(
                                   <<data.envelope[e].CHANNEL>>, data.econsent)[1])
                       IN  <<channel_id>> \o
                           concat([i \in 1..Len(data.brands) |->
                                      <<sales(i),
                                        get_fact_id(sales(i).value, channel_id.value)>>])])
    IN  <<get_time_id(data.cycle_start), get_time_id(data.ref_cycle_start)>>
        \o brand_ids \o channel_ids \o business \o hcp

\* the exception that ends the call: the first lookup that raises
first_raised(ls) ==
    LET bad == {i \in 1..Len(ls) : ls[i].raised}
    IN  IF bad = {} THEN Found(0) ELSE ls[first_of(bad)]

\* the three data frames built around next_id, as the caller puts them in
\* output_table_dict (in this order); nothing is returned when a lookup
\* raises
output_tables(data, sales_line, next_id, ETL_INSERT) ==
    LET business == business_constraints_rows(data, sales_line, next_id, ETL_INSERT)
        brand_specific == brand_specific_rows(data, ETL_INSERT)
        hcp == build_hcp_constraints_rows(data, sales_line, next_id, ETL_INSERT)
        rows_of(built) == [i \in 1..Len(built) |-> built[i].row]
        ended == first_raised(lookups(data, sales_line))
    IN  [raised |-> ended.raised,
         error |-> ended.error,
         names |-> ended.names,
         next_id |-> next_id,
         tables |-> IF ended.raised THEN <<>>
                    ELSE << <<"DS_BUSINESS_CONSTRAINTS", rows_of(business)>>,
                            <<"DS_BRAND_SPECIFIC_BUSINESS_CONSTRAINTS", rows_of(brand_specific)>>,
                            <<"DS_OCCP_HCP_CONSTRAINTS", rows_of(hcp)>> >>]

\* create_business_constraints_file with the identifier taken from the clock
\* and not from the stored maximum
create_business_constraints_file_stamped(data, sales_line, stored, ETL_INSERT) ==
    output_tables(data, sales_line, format_id(ETL_INSERT), ETL_INSERT)

\* create_business_constraints_file: stored is what DS_BUSINESS_CONSTRAINTS
\* holds when the maximum is read
create_business_constraints_file(data, sales_line, stored, ETL_INSERT) ==
    output_tables(data, sales_line,
                  format_id(get_latest_id_from_snowflake(stored)), ETL_INSERT)

(***************************************************************************)
(* The submissions: a click on "Review and Submit" builds the data frames  *)
(* (ui_orignal.py 2397-2423), a later click on "Submit Business            *)
(* Constraints" runs submit_constraints on them.                           *)
(***************************************************************************)
Submissions == 1..MaxSubmissions

EmptyWarehouse ==
    [DS_BUSINESS_CONSTRAINTS |-> <<>>,
     DS_BRAND_SPECIFIC_BUSINESS_CONSTRAINTS |-> <<>>,
     DS_OCCP_HCP_CONSTRAINTS |-> <<>>]

NoSubmission ==
    [pc |-> "idle", data |-> "None", sales_line |-> "None", next_id |-> <<>>,
     seen |-> 0, error |-> "None", names |-> {}, output_table_dict |-> <<>>,
     api_called |-> FALSE, api_ok |-> FALSE, emailed |-> FALSE, pushed |-> 0,
     status |-> "None", raised |-> FALSE, attempts |-> 0, posts |-> 0,
     response |-> "None"]

\* the envelope form before it is rendered
NoForm == [pc |-> "idle", rows |-> <<>>, error |-> "None", envelopes |-> <<>>]

IdleForm == form = NoForm

IdleWarehouse ==
    /\ warehouse = EmptyWarehouse
    /\ sub = [s \in Submissions |-> NoSubmission]
    /\ now = 0

\* the envelope matrix of a form: no row, or one row for F2F
Envelopes ==
    {<<>>, <<[CHANNEL |-> "F2F", SEGMENT |-> "A", MIN_VALUE |-> 1, MAX_VALUE |-> 4]>>}

\* the forms a user reviews: one brand with or without an envelope row,
\* two brands with an envelope row on one or two channels
ReviewInputs ==
    {[brands |-> f[1], channels |-> f[2], econsent |-> TRUE,
      occp_type |-> IF Len(f[1]) > 1 THEN "Multibrand" ELSE "Monobrand",
      avg_rep_capacity |-> 5, brand_distribution |-> "50",
      specialties |-> "None", file_format |-> "None",
      cycle_start |-> "2026-04", ref_cycle_start |-> "2026-01",
      envelope |-> f[3]] :
        f \in {g \in {<<"SOLIQUA">>, <<"SOLIQUA", "TOUJEO">>}
                      \X {<<"F2F">>, <<"F2F", "Remote">>} \X Envelopes :
                  /\ Len(g[2]) > 1 => Len(g[1]) > 1
                  /\ Len(g[1]) > 1 => g[3] # <<>>}}

\* what the review click leaves in the session: the frames it built around
\* the identifier it read, or the exception that ended it
reviewed(data, sales_line, built, seen) ==
    [pc |-> IF built.raised THEN "review_failed" ELSE "reviewed",
     data |-> data,
     sales_line |-> sales_line,
     next_id |-> built.next_id,
     seen |-> seen,
     error |-> built.error,
     names |-> built.names,
     output_table_dict |-> built.tables,
     api_called |-> FALSE,
     api_ok |-> FALSE,
     emailed |-> FALSE,
     pushed |-> 0,
     status |-> "None",
     raised |-> FALSE,
     attempts |-> 0,
     posts |-> 0,
     response |-> "None"]

\* the review click of submission s: reads MAX(ID) and builds the frames
Review(s) ==
    /\ sub[s].pc = "idle"
    /\ now' = now + 1
    /\ \E data \in ReviewInputs :
          LET built == create_business_constraints_file(
                           data, "SL", warehouse.DS_BUSINESS_CONSTRAINTS, now')
          IN  sub' = [sub EXCEPT ![s] =
                         reviewed(data, "SL", built,
                                  Len(warehouse.DS_BUSINESS_CONSTRAINTS))]
    /\ UNCHANGED <<bundle, payload, base, incoming, config_map, result, warehouse, form>>

\* the brands, channels and envelope matrices of the forms the resolver is
\* run on: brands and channels with and without reference rows
LookupBrands ==
    {<<"SOLIQUA">>, <<"TOUJEO">>, <<"LANTUS">>, <<"DUPIXENT Asthma">>,
     <<"DUPIXENT Copd">>, <<"SOLIQUA", "TOUJEO">>, <<"SOLIQUA", "LANTUS">>,
     <<"TOUJEO", "DUPIXENT Copd">>}

LookupChannels ==
    {<<"F2F">>, <<"RTE-Open">>, <<"Phone">>, <<"F2F", "Remote">>,
     <<"Remote", "RTE-Sent">>, <<"F2F", "Phone">>}

\* no row, one row for each channel, or two segments for the first channel
\* and the first brand
LookupEnvelopes(brands, channels) ==
    {<<>>,
     [i \in 1..Len(channels) |->
         [CHANNEL |-> channels[i], BRAND |-> upper(brands[1]), SEGMENT |-> "A",
          MIN_VALUE |-> 1, MAX_VALUE |-> 4]],
     [i \in 1..2 |->
         [CHANNEL |-> channels[1], BRAND |-> upper(brands[1]),
          SEGMENT |-> IF i = 1 THEN "A" ELSE "B",
          MIN_VALUE |-> i, MAX_VALUE |-> 4]]}

LookupInputs ==
    UNION {{[brands |-> br, channels |-> ch, econsent |-> ec,
             occp_type |-> IF Len(br) > 1 THEN "Multibrand" ELSE "Monobrand",
             avg_rep_capacity |-> 5, brand_distribution |-> "50",
             specialties |-> "None", file_format |-> "None",
             cycle_start |-> cs, ref_cycle_start |-> "2026-01",
             envelope |-> env] :
               ec \in BOOLEAN, cs \in {"2026-04", "2026-07"},
               env \in LookupEnvelopes(br, ch)} :
           br \in LookupBrands, ch \in LookupChannels}

SalesLines == {"SL", "XX"}

\* the review click on any of these forms, for any sales team
Resolve ==
    /\ sub[1].pc = "idle"
    /\ now' = now + 1
    /\ \E data \in LookupInputs, sales_line \in SalesLines :
          LET built == create_business_constraints_file(
                           data, sales_line, warehouse.DS_BUSINESS_CONSTRAINTS, now')
          IN  sub' = [sub EXCEPT ![1] =
                         reviewed(data, sales_line, built,
                                  Len(warehouse.DS_BUSINESS_CONSTRAINTS))]
    /\ UNCHANGED <<bundle, payload, base, incoming, config_map, result, warehouse, form>>

(***************************************************************************)
(* ui_orignal.py, utils/output_mapping.py: the summary rows the review     *)
(* click builds and the e-consent flag read back from them.  A text that   *)
(* is searched, lower-cased or stripped is the sequence of its characters. *)
(***************************************************************************)
\* the texts of the summary: the row create_business_constraints_file asks
\* get_value for (EConsent), the labels (row[1]) of the rows of
\* _build_excel_data, the values (row[2]) of its consent rows, and str(None)
excel_text ==
    [EConsent |-> <<"e", "-", "c", "o", "n", "s", "e", "n", "t">>,
     GenerateCycle |-> <<"G", "e", "n", "e", "r", "a", "t", "e", " ", "O",
         "C", "C", "P", " ", "f", "o", "r", " ", "c", "y", "c", "l", "e">>,
     CycleLength |-> <<"O", "C", "C", "P", " ", "C", "y", "c", "l", "e", " ",
         "L", "e", "n", "g", "t", "h">>,
     UpcomingDays |-> <<"N", "u", "m", "b", "e", "r", " ", "o", "f", " ",
         "W", "o", "r", "k", "i", "n", "g", " ", "D", "a", "y", "s", " ",
         "f", "o", "r", " ", "U", "p", "c", "o", "m", "i", "n", "g", " ",
         "c", "y", "c", "l", "e">>,
     ReferenceCycle |-> <<"R", "e", "f", "e", "r", "e", "n", "c", "e", " ",
         "C", "y", "c", "l", "e">>,
     ReferenceDays |-> <<"N", "u", "m", "b", "e", "r", " ", "o", "f", " ",
         "W", "o", "r", "k", "i", "n", "g", " ", "D", "a", "y", "s", " ",
         "f", "o", "r", " ", "R", "e", "f", "e", "r", "e", "n", "c", "e",
         " ", "c", "y", "c", "l", "e">>,
     OccpType |-> <<"M", "o", "n", "o", "b", "r", "a", "n", "d", "/", "M",
         "u", "l", "t", "i", "b", "r", "a", "n", "d", " ", "O", "C", "C",
         "P">>,
     Brands |-> <<"O", "C", "C", "P", " ", "B", "r", "a", "n", "d", "(", "s",
         ")">>,
     Channels |-> <<"O", "C", "C", "P", " ", "C", "h", "a", "n", "n", "e",
         "l", "s">>,
     MultibrandChannels |-> <<"S", "e", "l", "e", "c", "t", " ", "w", "h",
         "i", "c", "h", " ", "c", "h", "a", "n", "n", "e", "l", "s", " ",
         "c", "a", "n", " ", "b", "e", " ", "m", "u", "l", "t", "i", "b",
         "r", "a", "n", "d", " ", "i", "n", "t", "e", "r", "a", "c", "t",
         "i", "o", "n", "s", "?">>,
     BrandDistribution |-> <<"B", "r", "a", "n", "d", " ", "d", "i", "s",
         "t", "r", "i", "b", "u", "t", "i", "o", "n">>,
     AllChannels |-> <<"A", "v", "g", " ", "R", "e", "p", " ", "C", "a", "p",
         "a", "c", "i", "t", "y", " ", "f", "o", "r", " ", "A", "l", "l",
         " ", "C", "h", "a", "n", "n", "e", "l", "s">>,
     PerDay |-> <<"A", "v", "g", " ", "R", "e", "p", " ", "C", "a", "p", "a",
         "c", "i", "t", "y", " ", "p", "e", "r", " ", "d", "a", "y", " ",
         "f", "o", "r", " ">>,
     Combined |-> <<" ", "(", "P", "r", "e", "s", "c", "r", "i", "b", "e",
         "r", " ", "a", "n", "d", " ", "N", "o", "n", "-", "P", "r", "e",
         "s", "c", "r", "i", "b", "e", "r", "s", " ", "C", "o", "m", "b",
         "i", "n", "e", "d", ")">>,
     EConsentRequired |-> <<"e", "C", "o", "n", "s", "e", "n", "t", " ", "r",
         "e", "q", "u", "i", "r", "e", "d", " ", "f", "o", "r", " ", "R",
         "T", "E", "?">>,
     Veeva |-> <<"D", "o", " ", "y", "o", "u", " ", "r", "e", "q", "u", "i",
         "r", "e", " ", "t", "h", "e", " ", "O", "C", "C", "P", " ", "o",
         "u", "t", "p", "u", "t", " ", "i", "n", " ", "V", "e", "e", "v",
         "a", " ", "A", "l", "i", "g", "n", " ", "f", "o", "r", "m", "a",
         "t", " ", "f", "o", "r", " ", "s", "a", "l", "e", "s", " ", "r",
         "e", "p", "r", "e", "s", "e", "n", "t", "a", "t", "i", "v", "e",
         " ", "r", "e", "v", "i", "e", "w", "?", " ", "(", "Y", "e", "s",
         "/", "N", "o", ")">>,
     Yes |-> <<"Y", "e", "s">>,
     No |-> <<"N", "o">>,
     None |-> <<"N", "o", "n", "e">>]

\* str.lower()
str_lower(text) ==
    LET UpperCase ==
            <<"A", "B", "C", "D", "E", "F", "G", "H", "I", "J", "K", "L", "M",
              "N", "O", "P", "Q", "R", "S", "T", "U", "V", "W", "X", "Y", "Z">>
        LowerCase ==
            <<"a", "b", "c", "d", "e", "f", "g", "h", "i", "j", "k", "l", "m",
              "n", "o", "p", "q", "r", "s", "t", "u", "v", "w", "x", "y", "z">>
    IN  [i \in 1..Len(text) |->
            IF \E j \in 1..26 : UpperCase[j] = text[i]
            THEN LowerCase[CHOOSE j \in 1..26 : UpperCase[j] = text[i]]
            ELSE text[i]]

\* str.strip()
RECURSIVE str_strip(_)
str_strip(text) ==
    IF Len(text) = 0 THEN text
    ELSE IF Head(text) = " " THEN str_strip(Tail(text))
    ELSE IF text[Len(text)] = " " THEN str_strip(SubSeq(text, 1, Len(text) - 1))
    ELSE text

\* part in text
str_contains(text, part) ==
    \E i \in 1..(Len(text) - Len(part) + 1) :
        SubSeq(text, i, i + Len(part) - 1) = part

\* the characters of the channel names of the form
channel_text(channel) ==
    CASE channel = "F2F" -> <<"F", "2", "F">>
      [] channel = "Remote" -> <<"R", "e", "m", "o", "t", "e">>
      [] channel = "Phone" -> <<"P", "h", "o", "n", "e">>
      [] channel = "RTE-Open" -> <<"R", "T", "E", "-", "O", "p", "e", "n">>
      [] channel = "RTE-Sent" -> <<"R", "T", "E", "-", "S", "e", "n", "t">>

\* _build_excel_data: the rows [category, label, value] of a session.  The
\* value of a row whose text nothing reads is left as the session holds it.
build_excel_data(ss) ==
    << <<"Cycle", excel_text.GenerateCycle, "cycle_name">>,
       <<"OCCP Context", excel_text.CycleLength, ss.cycle_start>>,
       <<"OCCP Context", excel_text.UpcomingDays, "working_days">>,
       <<"OCCP Context", excel_text.ReferenceCycle, ss.ref_cycle_start>>,
       <<"OCCP Context", excel_text.ReferenceDays, "ref_working_days">>,
       <<"OCCP Context", excel_text.OccpType, ss.occp_type>>,
       <<"OCCP Context", excel_text.Brands, ss.brands>>,
       <<"OCCP Context", excel_text.Channels, ss.channels>> >>
    \o (IF Len(ss.brands) > 1
        THEN << <<"For Multibrand OCCP only:", excel_text.MultibrandChannels, ss.channels>>,
                <<"For Multibrand OCCP only:", excel_text.BrandDistribution,
                  ss.brand_distribution>> >>
        ELSE <<>>)
    \o << <<"Sales Rep. constraints", excel_text.AllChannels, ss.avg_rep_capacity>> >>
    \o [i \in 1..Len(ss.channels) |->
           <<"Sales Rep. constraints",
             excel_text.PerDay \o channel_text(ss.channels[i])
                 \o (IF ss.is_non_prescriber THEN excel_text.Combined ELSE <<>>),
             ss.avg_rep_capacity>>]
    \o (IF \E i \in 1..Len(ss.channels) : ss.channels[i] \in {"RTE-Open", "RTE-Sent"}
        THEN << <<"Additional Constraints", excel_text.EConsentRequired,
                  IF ss.econsent_rte THEN excel_text.Yes ELSE excel_text.No>> >>
        ELSE <<>>)
    \o << <<"Veeva Align Format", excel_text.Veeva,
            IF ss.veeva_checkbox THEN excel_text.Yes ELSE excel_text.No>> >>

\* get_value on a list of rows, from row i on: the value of the first row
\* whose label holds info, whatever the case; found is FALSE for None
RECURSIVE get_value_from(_, _, _)
get_value_from(data, info, i) ==
    IF i > Len(data) THEN [found |-> FALSE, value |-> excel_text.None]
    ELSE IF Len(data[i]) >= 3 /\ str_contains(str_lower(data[i][2]), str_lower(info))
    THEN [found |-> TRUE, value |-> data[i][3]]
    ELSE get_value_from(data, info, i + 1)

get_value(data, info) == get_value_from(data, info, 1)

\* str(get_value(data, "e-consent")).strip().lower() in ["true", "yes", "y"]
econsent_of(data) ==
    str_lower(str_strip(get_value(data, excel_text.EConsent).value))
        \in {<<"t", "r", "u", "e">>, <<"y", "e", "s">>, <<"y">>}

\* the sessions a review is clicked in: a form, the e-consent and Veeva
\* check boxes and the non-prescriber choice
Sessions ==
    {[brands |-> d.brands, channels |-> d.channels, occp_type |-> d.occp_type,
      avg_rep_capacity |-> d.avg_rep_capacity,
      brand_distribution |-> d.brand_distribution,
      specialties |-> d.specialties, file_format |-> d.file_format,
      cycle_start |-> d.cycle_start, ref_cycle_start |-> d.ref_cycle_start,
      envelope |-> d.envelope, econsent_rte |-> d.econsent,
      veeva_checkbox |-> veeva, is_non_prescriber |-> np] :
        d \in LookupInputs, veeva \in BOOLEAN, np \in BOOLEAN}

\* what create_business_constraints_file reads from the rows of a session:
\* the flag comes from get_value, the other values are those of the rows
summary_data(ss) ==
    [brands |-> ss.brands, channels |-> ss.channels,
     econsent |-> econsent_of(build_excel_data(ss)),
     occp_type |-> ss.occp_type, avg_rep_capacity |-> ss.avg_rep_capacity,
     brand_distribution |-> ss.brand_distribution,
     specialties |-> ss.specialties, file_format |-> ss.file_format,
     cycle_start |-> ss.cycle_start, ref_cycle_start |-> ss.ref_cycle_start,
     envelope |-> ss.envelope,
     rows |-> build_excel_data(ss)]

\* the review click of ui_orignal.py: the rows of the session are built and
\* handed to create_business_constraints_file
ReviewSession ==
    /\ sub[1].pc = "idle"
    /\ now' = now + 1
    /\ \E ss \in Sessions :
          LET data == summary_data(ss)
              built == create_business_constraints_file(
                           data, "SL", warehouse.DS_BUSINESS_CONSTRAINTS, now')
          IN  sub' = [sub EXCEPT ![1] =
                         reviewed(data, "SL", built,
                                  Len(warehouse.DS_BUSINESS_CONSTRAINTS))]
    /\ UNCHANGED <<bundle, payload, base, incoming, config_map, result, warehouse, form>>

\* df.to_sql(table, ..., if_exists='append') for the first k entries of
\* output_table_dict that are neither None nor empty
RECURSIVE push_tables(_, _, _)
push_tables(wh, out, k) ==
    IF k = 0 THEN wh
    ELSE LET before == push_tables(wh, out, k - 1)
         IN  IF Len(out[k][2]) = 0 THEN before
             ELSE [before EXCEPT ![out[k][1]] = @ \o out[k][2]]

\* the three status messages of submit_constraints, up to the text that
\* follows the colon
SubmittedStatus ==
    "Business constraints submitted, API called, emailed, and pushed to Snowflake successfully!"
ApiFailedStatus == "API submission failed"
SubmissionFailedStatus == "Submission failed"

\* what post_bundle does with the bundle: the response of post for a status
\* 200, a response whose status is not success, or an exception
post_bundle_outcomes == {"success", "fail", "raised"}

\* as returned, without the except clause: an exception of a step leaves
\* submit_constraints
returned_uncaught(outcome) ==
    CASE outcome = "success" -> [raised |-> FALSE, status |-> SubmittedStatus]
      [] outcome = "api_failed" -> [raised |-> FALSE, status |-> ApiFailedStatus]
      [] OTHER -> [raised |-> TRUE, status |-> "None"]

\* how submit_constraints ends: the return of the try block, or the return
\* of the except clause for an exception of any step
returned(outcome) ==
    CASE outcome = "success" -> [raised |-> FALSE, status |-> SubmittedStatus]
      [] outcome = "api_failed" -> [raised |-> FALSE, status |-> ApiFailedStatus]
      [] OTHER -> [raised |-> FALSE, status |-> SubmissionFailedStatus]

\* submit_constraints for submission s.  It can raise before the API call
\* (Excel, e-mail configuration), raise in the API call, return on an API
\* failure, raise after the API call with k entries pushed (the e-mail or
\* what follows it for k = 0, else the to_sql of entry k + 1), or push every
\* entry.  It keeps nothing from an earlier call.
submit_constraints(s) ==
    \E outcome \in {"raised_early", "api_raised", "api_failed", "raised", "success"},
       k \in 0..Len(sub[s].output_table_dict), sent \in BOOLEAN :
       LET out == sub[s].output_table_dict
           response == CASE outcome \in {"raised", "success"} -> "success"
                         [] outcome = "api_failed" -> "fail"
                         [] outcome = "api_raised" -> "raised"
                         [] OTHER -> "None"
           ret == returned(outcome)
       IN  /\ outcome # "raised_early" => response \in post_bundle_outcomes
           /\ outcome \in {"raised_early", "api_raised", "api_failed"} => k = 0 /\ ~sent
           /\ outcome = "success" => k = Len(out) /\ sent
           /\ outcome = "raised" =>
                  /\ k < Len(out)
                  /\ k > 0 => Len(out[k + 1][2]) > 0 /\ sent
           /\ warehouse' = push_tables(warehouse, out, k)
           /\ sub' = [sub EXCEPT ![s].pc =
                                     CASE outcome = "success" -> "done"
                                       [] outcome = "api_failed" -> "api_failed"
                                       [] OTHER -> "failed",
                                 ![s].api_called = (outcome # "raised_early"),
                                 ![s].api_ok = (response = "success"),
                                 ![s].emailed = sent,
                                 ![s].pushed = k,
                                 ![s].status = ret.status,
                                 ![s].raised = ret.raised,
                                 ![s].attempts = @ + 1,
                                 ![s].posts = @ + (IF response = "success" THEN 1 ELSE 0),
                                 ![s].response = response]

\* the first click on "Submit Business Constraints" of submission s
Submit(s) ==
    /\ sub[s].pc = "reviewed"
    /\ submit_constraints(s)
    /\ UNCHANGED <<bundle, payload, base, incoming, config_map, result, now, form>>

\* a further click on the button, which the dialog still shows after a
\* submission that failed
Resubmit(s) ==
    /\ sub[s].pc \in {"failed", "api_failed"}
    /\ sub[s].attempts < MaxAttempts
    /\ submit_constraints(s)
    /\ UNCHANGED <<bundle, payload, base, incoming, config_map, result, now, form>>

\* OCCPTool._render_email_section on the submit click: first
\* push_output_tables_to_df (write_pandas of every entry, which raises on
\* the None that stands for no brand-specific rows), then submit_payload:
\* no output configuration, or the POST (skipped in DEV) followed by the
\* e-mail whatever the status was.
SubmitOriginal(s) ==
    /\ sub[s].pc = "reviewed"
    /\ \E outcome \in {"push_raised", "no_config", "dev", "posted_ok", "posted_failed"},
          k \in 0..Len(sub[s].output_table_dict), sent \in BOOLEAN :
          LET out == sub[s].output_table_dict
          IN  /\ \A e \in 1..k : e = 2 => Len(out[e][2]) > 0
              /\ outcome = "push_raised" => k < Len(out)
              /\ outcome # "push_raised" => k = Len(out)
              /\ outcome \in {"push_raised", "no_config"} => ~sent
              /\ warehouse' = push_tables(warehouse, out, k)
              /\ sub' = [sub EXCEPT ![s].pc =
                                        CASE outcome \in {"dev", "posted_ok"} -> "done"
                                          [] outcome = "posted_failed" -> "api_failed"
                                          [] OTHER -> "failed",
                                    ![s].api_called = (outcome \in {"posted_ok", "posted_failed"}),
                                    ![s].api_ok = (outcome = "posted_ok"),
                                    ![s].emailed = sent,
                                    ![s].pushed = k,
                                    ![s].raised = (outcome = "push_raised"),
                                    ![s].attempts = @ + 1,
                                    ![s].posts = @ + (IF outcome = "posted_ok" THEN 1 ELSE 0),
                                    ![s].response =
                                        CASE outcome = "posted_ok" -> "success"
                                          [] outcome = "posted_failed" -> "fail"
                                          [] OTHER -> "None"]
    /\ UNCHANGED <<bundle, payload, base, incoming, config_map, result, now, form>>

(***************************************************************************)
(* The documents the merger is run on.                                     *)
(***************************************************************************)
\* NodesOf(A, ks, s, d): the nodes of exactly s atoms (scalars, None, {})
\* drawn from A, at most d levels of dicts and lists deep, whose dicts list
\* their keys in the order of ks
RECURSIVE NodesOf(_, _, _, _)
RECURSIVE ItemsOf(_, _, _, _, _)
RECURSIVE ElemsOf(_, _, _, _, _)
NodesOf(A, ks, s, d) ==
    (IF s = 1 THEN A ELSE {})
    \cup (IF d = 0 THEN {}
          ELSE {Map(it) : it \in ItemsOf(A, ks, ks, s, d - 1)}
               \cup {List(it) : it \in ElemsOf(A, ks, 2, s, d - 1)})

\* the item sequences of a dict over keys taken in order from rem
ItemsOf(A, ks, rem, s, d) ==
    IF s = 0 THEN {<<>>}
    ELSE IF Len(rem) = 0 THEN {}
    ELSE ItemsOf(A, ks, Tail(rem), s, d)
         \cup UNION {{<< <<Head(rem), c>> >> \o rest :
                         c \in NodesOf(A, ks, s1, d),
                         rest \in ItemsOf(A, ks, Tail(rem), s - s1, d)} :
                     s1 \in 1..s}

\* the item sequences of a list of at most n elements
ElemsOf(A, ks, n, s, d) ==
    IF s = 0 THEN {<<>>}
    ELSE IF n = 0 THEN {}
    ELSE UNION {{<< <<"", c>> >> \o rest :
                    c \in NodesOf(A, ks, s1, d),
                    rest \in ElemsOf(A, ks, n - 1, s - s1, d)} :
                s1 \in 1..s}

\* the documents (dicts) of at most n atoms and depth at most d
Docs(A, ks, n, d) ==
    {EmptyMap} \cup UNION {{Map(it) : it \in ItemsOf(A, ks, ks, s, d - 1)} : s \in 1..n}

Keys == <<"a", "b">>
BaseAtoms == {Leaf(1), EmptyMap}
IncomingAtoms == {Leaf(2), NoneNode}

\* the paths of 1..n segments over the keys
PathsUpTo(n) == UNION {[1..m -> {Keys[i] : i \in 1..Len(Keys)}] : m \in 1..n}

MergeConfigs ==
    /\ ~result.done
    /\ result' = [done |-> TRUE] @@ deep_merge_configs(base, incoming, config_map)
    /\ UNCHANGED <<bundle, payload, base, incoming, config_map, warehouse, sub, now, form>>

\* deep_merge_configs under a remap table of any shape: what it returns and
\* what it leaves in incoming
MergeConfigObjects ==
    /\ ~result.done
    /\ LET merged == deep_merge_objects(base, incoming, config_map)
       IN  /\ result' = [done |-> TRUE, raised |-> merged.raised,
                         value |-> merged.value]
           /\ incoming' = merged.incoming
    /\ UNCHANGED <<bundle, payload, base, config_map, warehouse, sub, now, form>>

(***************************************************************************)
(* The bundles the compiler is run on.                                     *)
(***************************************************************************)
BrandNames == {"A", "B", "C", "D"}
CapacityValues == {0, 3, 5}
WorkingDays == {20, 21}
CycleMonths == {1, 2}

\* the sequences without repetition over S of length at most n
DistinctSeqs(S, n) ==
    UNION {{q \in [1..m -> S] : \A i, j \in 1..m : i # j => q[i] # q[j]} : m \in 0..n}

\* the sub-lists of the list s, in the order of s
RECURSIVE SubLists(_)
SubLists(s) ==
    IF Len(s) = 0 THEN {<<>>}
    ELSE LET rest == SubLists(Tail(s))
         IN  rest \cup {<<Head(s)>> \o r : r \in rest}

\* a monobrand bundle in historical mode without envelope rules
NoEnvelopes ==
    [mode |-> "Monobrand", envelopes_hist |-> ListOf(<<>>), envelopes_seg |-> NoList,
     non_prescriber |-> NoList]

BuildPayload ==
    /\ ~payload.built
    /\ payload' = build(bundle)
    /\ UNCHANGED <<bundle, base, incoming, config_map, result, warehouse, sub, now, form>>

IdleMerger ==
    /\ base = EmptyMap
    /\ incoming = EmptyMap
    /\ config_map = <<>>
    /\ result = NoResult

\* bundles that differ in channels, brands and multibrand eligibility
InitChannels ==
    /\ IdleForm
    /\ \E ch \in DistinctSeqs(Channel, MaxChannels),
          br \in DistinctSeqs(BrandNames, MaxBrands) :
          \E mb \in SubLists(ch) :
              bundle = [channels |-> ch, multibrand_channels |-> mb, brands |-> br,
                        daily_capacity |-> [i \in 1..Len(ch) |-> <<ch[i], 5>>],
                        working_days |-> 20, months |-> 1, sales_line |-> "SL"]
                       @@ NoEnvelopes
    /\ payload = NoPayload
    /\ IdleMerger
    /\ IdleWarehouse

\* bundles of at most one channel that differ in the brand list and in the
\* multibrand eligibility of the channel
InitCombinations ==
    /\ IdleForm
    /\ \E ch \in DistinctSeqs(Channel, 1),
          br \in DistinctSeqs(BrandNames, MaxBrands) :
          \E mb \in SubLists(ch) :
              bundle = [channels |-> ch, multibrand_channels |-> mb, brands |-> br,
                        daily_capacity |-> [i \in 1..Len(ch) |-> <<ch[i], 5>>],
                        working_days |-> 20, months |-> 1, sales_line |-> "SL"]
                       @@ NoEnvelopes
    /\ payload = NoPayload
    /\ IdleMerger
    /\ IdleWarehouse

\* bundles that differ in channels, capacities, working days and cycle length
InitCapacity ==
    /\ IdleForm
    /\ \E ch \in DistinctSeqs(Channel, MaxChannels) :
          \E cap \in [1..Len(ch) -> CapacityValues],
             wd \in WorkingDays, mo \in CycleMonths :
              bundle = [channels |-> ch, multibrand_channels |-> <<>>,
                        brands |-> <<"A">>,
                        daily_capacity |-> [i \in 1..Len(ch) |-> <<ch[i], cap[i]>>],
                        working_days |-> wd, months |-> mo, sales_line |-> "SL"]
                       @@ NoEnvelopes
    /\ payload = NoPayload
    /\ IdleMerger
    /\ IdleWarehouse

\* the envelope rules of a bundle: none, one for the first channel, or one
\* for every channel (historical); one per brand for the first channel, or
\* one per channel and brand (segment)
HCPEnvelopeRule(lo, hi) == [min_val |-> lo, max_val |-> hi]

HistoricalEnvelopes(ch) ==
    {<<>>,
     [i \in 1..(IF Len(ch) > 0 THEN 1 ELSE 0) |->
         [channel |-> ch[i], reference_cycle_actual |-> 1, rule |-> HCPEnvelopeRule(1, 3)]],
     [i \in 1..Len(ch) |->
         [channel |-> ch[i], reference_cycle_actual |-> 1, rule |-> HCPEnvelopeRule(i, 3)]]}

SegmentEnvelopes(ch, br) ==
    {<<>>,
     [k \in 1..(IF Len(ch) > 0 THEN Len(br) ELSE 0) |->
         [channel |-> ch[1], brand |-> br[k], segment |-> "A",
          rule |-> HCPEnvelopeRule(k, 4)]],
     [k \in 1..(Len(ch) * Len(br)) |->
         [channel |-> ch[((k - 1) \div Len(br)) + 1],
          brand |-> br[((k - 1) % Len(br)) + 1], segment |-> "A",
          rule |-> HCPEnvelopeRule(0, 2)]]}

NonPrescriberEnvelopes(ch) ==
    {NoList, ListOf(<<>>),
     ListOf([i \in 1..(IF Len(ch) > 0 THEN 1 ELSE 0) |->
                [channel |-> ch[i], rule |-> HCPEnvelopeRule(0, 1)]])}

\* the brand selections: one brand, two in sorted order, two in reverse
EnvelopeBrands == {<<"A">>, <<"A", "B">>, <<"B", "A">>}

\* bundles that differ in channels, brands, envelope mode and rules,
\* multibrand eligibility and non-prescriber rules
InitPayload ==
    /\ IdleForm
    /\ \E ch \in DistinctSeqs(Channel, MaxChannels), br \in EnvelopeBrands :
          \E mb \in {<<>>, ch}, np \in NonPrescriberEnvelopes(ch),
             env \in {<<ListOf(h), NoList>> : h \in HistoricalEnvelopes(ch)}
                      \cup {<<NoList, ListOf(g)>> : g \in SegmentEnvelopes(ch, br)} :
              bundle = [channels |-> ch, multibrand_channels |-> mb, brands |-> br,
                        daily_capacity |-> [i \in 1..Len(ch) |-> <<ch[i], 5>>],
                        working_days |-> 20, months |-> 1, sales_line |-> "SL",
                        mode |-> IF Len(br) > 1 THEN "Multibrand" ELSE "Monobrand",
                        envelopes_hist |-> env[1], envelopes_seg |-> env[2],
                        non_prescriber |-> np]
    /\ payload = NoPayload
    /\ IdleMerger
    /\ IdleWarehouse

\* bundles that differ in channels, capacities and cycle length, a cycle of
\* 0 months included
InitCycle ==
    /\ IdleForm
    /\ \E ch \in DistinctSeqs(Channel, MaxChannels) :
          \E cap \in [1..Len(ch) -> CapacityValues], mo \in {0, 1, 2} :
              bundle = [channels |-> ch, multibrand_channels |-> <<>>,
                        brands |-> <<"A">>,
                        daily_capacity |-> [i \in 1..Len(ch) |-> <<ch[i], cap[i]>>],
                        working_days |-> 20, months |-> mo, sales_line |-> "SL"]
                       @@ NoEnvelopes
    /\ payload = NoPayload
    /\ IdleMerger
    /\ IdleWarehouse

NextPayload == BuildPayload

IdleCompiler ==
    /\ bundle = [channels |-> <<>>, multibrand_channels |-> <<>>, brands |-> <<>>,
                 daily_capacity |-> <<>>, working_days |-> 1, months |-> 1,
                 sales_line |-> "SL"] @@ NoEnvelopes
    /\ payload = NoPayload

(***************************************************************************)
(* The envelope form (ui/hcp_envelope_form.py): every row of the editor    *)
(* becomes an HCPEnvelopeRule, and the list of envelopes is handed to      *)
(* BusinessConstraintsService.validate_envelope_matrix.                    *)
(***************************************************************************)
\* an optional integer: None, or a value
NoneValue == <<>>
Some(v) == <<v>>
is_none(o) == Len(o) = 0
value_of(o) == o[1]

\* Field(ge=0) on an int field: the errors of the value o
field_errors(o) ==
    IF is_none(o) THEN {"int_type"}
    ELSE IF value_of(o) >= 0 THEN {} ELSE {"greater_than_equal"}

\* as _max_ge_min, comparing with >= in place of <
max_ge_min_strict(v, values) ==
    IF "min_val" \in DOMAIN values /\ v <= values.min_val
    THEN {"value_error"} ELSE {}

\* the validator _max_ge_min of max_val: values holds the fields validated
\* before it that had no error
max_ge_min(v, values) ==
    IF "min_val" \in DOMAIN values /\ v < values.min_val
    THEN {"value_error"} ELSE {}

\* HCPEnvelopeRule(min_val = lo, max_val = hi): the fields are validated in
\* order, the validator of max_val runs when the field itself has no error,
\* and any error raises ValidationError
HCPEnvelopeRule_init(lo, hi) ==
    LET min_errors == field_errors(lo)
        values == IF min_errors = {} THEN [min_val |-> value_of(lo)]
                  ELSE [none |-> TRUE]
        max_errors == IF field_errors(hi) # {} THEN field_errors(hi)
                      ELSE max_ge_min(value_of(hi), values)
    IN  IF min_errors \cup max_errors = {}
        THEN [raised |-> FALSE, error |-> "None",
              rule |-> [min_val |-> lo, max_val |-> hi]]
        ELSE [raised |-> TRUE, error |-> "ValidationError",
              rule |-> [min_val |-> NoneValue, max_val |-> NoneValue]]

\* the loop of validate_envelope_matrix from envelope i on: the error it
\* raises, if any
RECURSIVE validate_envelope_matrix_loop(_, _)
validate_envelope_matrix_loop(envelopes, i) ==
    IF i > Len(envelopes) THEN "None"
    ELSE LET min_val == envelopes[i].rule.min_val
             max_val == envelopes[i].rule.max_val
         IN  IF ~is_none(min_val) /\ ~is_none(max_val)
                   /\ (value_of(min_val) < 0 \/ value_of(max_val) < 0
                       \/ value_of(max_val) < value_of(min_val))
             THEN "ValueError"
             ELSE validate_envelope_matrix_loop(envelopes, i + 1)

validate_envelope_matrix(envelopes) == validate_envelope_matrix_loop(envelopes, 1)

\* the rules built from the first n rows, when none of them raised
RECURSIVE rules_of(_, _)
rules_of(rows, n) ==
    IF n = 0 THEN <<>>
    ELSE Append(rules_of(rows, n - 1),
                [channel |-> "F2F",
                 rule |-> HCPEnvelopeRule_init(rows[n].Min, rows[n].Max).rule])

\* a bound of a row of the editor: an empty cell or an integer
BoundValues == {NoneValue} \cup {Some(v) : v \in (0 - 1)..MaxBoundValue}

\* the tables of at most MaxRows rows
FormRows ==
    UNION {[1..n -> [Min : BoundValues, Max : BoundValues]] : n \in 0..MaxRows}

InitEnvelopeForm ==
    /\ form \in {[NoForm EXCEPT !.rows = r] : r \in FormRows}
    /\ bundle = [channels |-> <<>>, multibrand_channels |-> <<>>, brands |-> <<>>,
                 daily_capacity |-> <<>>, working_days |-> 1, months |-> 1,
                 sales_line |-> "SL"] @@ NoEnvelopes
    /\ payload = NoPayload
    /\ IdleMerger
    /\ IdleWarehouse

\* the form is rendered on the rows: the rules are constructed row by row
\* (the first ValidationError ends the run), then the envelopes are
\* validated (a ValueError is shown and nothing is returned)
RenderEnvelopeForm ==
    /\ form.pc = "idle"
    /\ LET rows == form.rows
           bad == {i \in 1..Len(rows) : HCPEnvelopeRule_init(rows[i].Min, rows[i].Max).raised}
       IN  IF bad # {}
           THEN form' = [form EXCEPT !.pc = "raised", !.error = "ValidationError"]
           ELSE LET envelopes == rules_of(rows, Len(rows))
                    error == validate_envelope_matrix(envelopes)
                IN  IF error # "None"
                    THEN form' = [form EXCEPT !.pc = "rejected", !.error = error]
                    ELSE form' = [form EXCEPT !.pc = "returned",
                                              !.envelopes = envelopes]
    /\ UNCHANGED <<bundle, payload, base, incoming, config_map, result, warehouse,
                   sub, now>>

\* validate_envelope_matrix called on objects that carry the rows as they
\* are, as the tests call it
ValidateEnvelopeMatrix ==
    /\ form.pc = "idle"
    /\ LET envelopes == [i \in 1..Len(form.rows) |->
                            [channel |-> "F2F",
                             rule |-> [min_val |-> form.rows[i].Min,
                                       max_val |-> form.rows[i].Max]]]
           error == validate_envelope_matrix(envelopes)
       IN  form' = [form EXCEPT !.pc = IF error = "None" THEN "validated"
                                                           ELSE "invalid",
                                 !.error = error]
    /\ UNCHANGED <<bundle, payload, base, incoming, config_map, result, warehouse,
                   sub, now>>

NextEnvelopeForm == RenderEnvelopeForm \/ ValidateEnvelopeMatrix

SpecEnvelopeForm == InitEnvelopeForm /\ [][NextEnvelopeForm]_vars

\* a base and an incoming document, merged under an empty remap table
InitMerge ==
    /\ IdleForm
    /\ base \in Docs(BaseAtoms, Keys, MaxLeaves, MaxDepth)
    /\ incoming \in Docs(IncomingAtoms, Keys, 1, MaxDepth)
    /\ config_map = <<>>
    /\ result = NoResult
    /\ IdleCompiler
    /\ IdleWarehouse

\* p is a prefix of q
IsPrefix(p, q) == Len(p) <= Len(q) /\ SubSeq(q, 1, Len(p)) = p

\* the remap tables of at most n entries over paths of at most d segments in
\* which no destination is a prefix of another one
RemapTables(n, d) ==
    UNION {{t \in [1..m -> PathsUpTo(d) \X PathsUpTo(d)] :
               \A i, j \in 1..m : i # j => ~IsPrefix(t[i][1], t[j][1])} :
           m \in 0..n}

\* a base and an incoming document, merged under a remap table
InitRemap ==
    /\ IdleForm
    /\ base \in Docs(BaseAtoms, Keys, MaxLeaves, MaxDepth)
    /\ incoming \in Docs(IncomingAtoms \cup {Leaf(1)}, Keys, 1, MaxDepth)
    /\ config_map \in RemapTables(MaxRemapEntries, MaxDepth)
    /\ result = NoResult
    /\ IdleCompiler
    /\ IdleWarehouse

\* the document that holds the single leaf v at path p
RECURSIVE SingleLeafDoc(_, _)
SingleLeafDoc(p, v) ==
    IF Len(p) = 1 THEN Map(<< <<p[1], v>> >>)
    ELSE Map(<< <<p[1], SingleLeafDoc(Tail(p), v)>> >>)

\* documents over three keys, one level deeper, in which a recorded path
\* can occur with another key between its segments
Keys3 == <<"a", "b", "c">>

PathsOver(ks, n) == UNION {[1..m -> {ks[i] : i \in 1..Len(ks)}] : m \in 1..n}

\* a base document and an incoming document of one leaf
InitPropagate ==
    /\ IdleForm
    /\ base \in Docs({Leaf(1)}, Keys3, MaxLeaves, MaxDepth + 1)
    /\ incoming \in {SingleLeafDoc(p, Leaf(2)) : p \in PathsOver(Keys3, MaxDepth)}
    /\ config_map = <<>>
    /\ result = NoResult
    /\ IdleCompiler
    /\ IdleWarehouse

\* a base document and an incoming document of several leaves with
\* different values, its keys in either order
InitIncoming ==
    /\ IdleForm
    /\ base \in Docs(BaseAtoms, Keys, 1, MaxDepth)
    /\ incoming \in Docs({Leaf(2), Leaf(3)}, Keys, MaxLeaves, MaxDepth)
                     \cup Docs({Leaf(2), Leaf(3)}, <<"b", "a">>, MaxLeaves, MaxDepth)
    /\ config_map = <<>>
    /\ result = NoResult
    /\ IdleCompiler
    /\ IdleWarehouse

\* the remap tables of at most n entries over paths of at most d segments
AnyRemapTables(n, d) ==
    UNION {[1..m -> PathsUpTo(d) \X PathsUpTo(d)] : m \in 0..n}

\* a base and an incoming document, merged under a remap table in which a
\* destination may lie under another one
InitObjects ==
    /\ IdleForm
    /\ base \in Docs({Leaf(1)}, Keys, 1, 1)
    /\ incoming \in Docs({Leaf(2)}, Keys, MaxLeaves, MaxDepth)
    /\ config_map \in AnyRemapTables(MaxRemapEntries + 1, MaxDepth)
    /\ result = NoResult
    /\ IdleCompiler
    /\ IdleWarehouse

\* the remap tables of at most n entries, no destination a prefix of
\* another one, that bring single keys of incoming to destinations of at
\* most d + 1 segments
RerunTables(n, d) ==
    UNION {{t \in [1..m -> PathsUpTo(d + 1) \X PathsUpTo(1)] :
               \A i, j \in 1..m : i # j => ~IsPrefix(t[i][1], t[j][1])} :
           m \in 0..n}

\* a stored configuration and a document of one leaf, merged under a remap
\* table whose destinations reach one level below the documents
InitRerun ==
    /\ IdleForm
    /\ base \in Docs({Leaf(1)}, Keys, 1, 1)
    /\ incoming \in Docs({Leaf(2)}, Keys, 1, MaxDepth)
    /\ config_map \in RerunTables(MaxRemapEntries, MaxDepth)
    /\ result = NoResult
    /\ IdleCompiler
    /\ IdleWarehouse

NextMerge == MergeConfigs

NextObjects == MergeConfigObjects

SpecRemap == InitRemap /\ [][NextMerge]_vars

SpecMerge == InitMerge /\ [][NextMerge]_vars

SpecPropagate == InitPropagate /\ [][NextMerge]_vars

SpecIncoming == InitIncoming /\ [][NextMerge]_vars

SpecObjects == InitObjects /\ [][NextObjects]_vars

SpecRerun == InitRerun /\ [][NextMerge]_vars

SpecChannels == InitChannels /\ [][NextPayload]_vars
SpecCapacity == InitCapacity /\ [][NextPayload]_vars
SpecCombinations == InitCombinations /\ [][NextPayload]_vars
SpecPayload == InitPayload /\ [][NextPayload]_vars
SpecCycle == InitCycle /\ [][NextPayload]_vars

(***************************************************************************)
(* The warehouse the submissions run against.                              *)
(***************************************************************************)
\* a business row an earlier run left in DS_BUSINESS_CONSTRAINTS
PriorRow(n) ==
    [ID |-> format_id(n), FACT_ID |-> 1, UPCOMING_TIME_ID |-> 2,
     REFERENCE_TIME_ID |-> 1, AVG_REP_CAPACITY |-> 5] @@ audit(0)

\* the run numbers the table can hold at the start
PriorRuns == {41}
LatePriorRuns == {9999998, 9999999}

WarehouseAfter(runs) ==
    {EmptyWarehouse}
    \cup {[EmptyWarehouse EXCEPT !.DS_BUSINESS_CONSTRAINTS = <<PriorRow(n)>>] : n \in runs}

InitWarehouse ==
    /\ IdleForm
    /\ warehouse \in WarehouseAfter(PriorRuns)
    /\ sub = [s \in Submissions |-> NoSubmission]
    /\ now = 0
    /\ IdleCompiler
    /\ IdleMerger

InitSerial ==
    /\ IdleForm
    /\ warehouse \in WarehouseAfter(LatePriorRuns)
    /\ sub = [s \in Submissions |-> NoSubmission]
    /\ now = 0
    /\ IdleCompiler
    /\ IdleMerger

\* the review click when submissions are serialized from outside: no other
\* submission is between its review and the end of its submit
ReviewSerialized(s) ==
    /\ \A t \in Submissions \ {s} : sub[t].pc # "reviewed"
    /\ Review(s)

NextWarehouse == \E s \in Submissions : Review(s) \/ Submit(s)
NextSerial == \E s \in Submissions : ReviewSerialized(s) \/ Submit(s)

\* the resolver alone, on forms whose lookups can miss
NextLookup == Resolve

NextSession == ReviewSession

\* one submission whose submit click is repeated after a failure
NextRetry == Review(1) \/ Submit(1) \/ Resubmit(1)

\* both submit paths: submit_constraints and the original submit click
NextFlow == \E s \in Submissions : Review(s) \/ Submit(s) \/ SubmitOriginal(s)

SpecWarehouse == InitWarehouse /\ [][NextWarehouse]_vars
SpecLookup == InitWarehouse /\ [][NextLookup]_vars

SpecSession == InitWarehouse /\ [][NextSession]_vars
SpecFlow == InitWarehouse /\ [][NextFlow]_vars
SpecRetry == InitWarehouse /\ [][NextRetry]_vars
SpecSerial == InitSerial /\ [][NextSerial]_vars

(***************************************************************************)
(* Claims about the Interaction Channel Builder and the Capacity Compiler. *)
(***************************************************************************)
RECURSIVE Pow2(_)
Pow2(n) == IF n = 0 THEN 1 ELSE 2 * Pow2(n - 1)

\* brand subsets of size >= 2 as sets of brand positions
BrandSubsets(n) == {S \in SUBSET (1..n) : Cardinality(S) >= 2}

Min(S) == CHOOSE x \in S : \A y \in S : x <= y

\* S comes before T: a smaller subset first, and within a size the one whose
\* positions are lexicographically smaller
Before(S, T) ==
    \/ Cardinality(S) < Cardinality(T)
    \/ /\ Cardinality(S) = Cardinality(T)
       /\ S # T
       /\ Min((S \ T) \cup (T \ S)) \in S

\* BRAND<i1>_AND_..._BRAND<ik> for the positions of S in increasing order
RECURSIVE SubsetSuffix(_)
SubsetSuffix(S) ==
    IF Cardinality(S) = 1 THEN "BRAND" \o ToString(Min(S))
    ELSE "BRAND" \o ToString(Min(S)) \o "_AND_" \o SubsetSuffix(S \ {Min(S)})

Eligible(b, channel) ==
    \E i \in 1..Len(b.multibrand_channels) :
        lower(b.multibrand_channels[i]) = lower(channel)

BlockLen(b, channel) ==
    Len(b.brands)
    + (IF Eligible(b, channel) THEN Pow2(Len(b.brands)) - Len(b.brands) - 1 ELSE 0)

RECURSIVE BlockStart(_, _)
BlockStart(b, c) ==
    IF c = 1 THEN 0 ELSE BlockStart(b, c - 1) + BlockLen(b, b.channels[c - 1])

\* the key the claim puts at place p (1-based) of the block of channel c
ExpectedKey(b, c, p) ==
    LET n == Len(b.brands)
        tok == channel_key(b.channels[c])
    IN  IF p <= n THEN tok \o "_BRAND" \o ToString(p)
        ELSE LET S == CHOOSE T \in BrandSubsets(n) :
                          Cardinality({U \in BrandSubsets(n) : Before(U, T)}) = p - n - 1
             IN  tok \o "_" \o SubsetSuffix(S)

EligibleCount(b) ==
    Cardinality({c \in 1..Len(b.channels) : Eligible(b, b.channels[c])})

\* C1: the interaction_channels sequence of a built payload holds no key
\* twice, for any distinct channels, distinct brands and eligible subset.
C1_InteractionKeysUnique ==
    payload.built =>
        \A i, j \in 1..Len(payload.interaction_channels) :
            i # j => payload.interaction_channels[i] # payload.interaction_channels[j]

\* C2: interaction_channels is, channel by channel in bundle order, the
\* single-brand keys REP_<token>_BRAND<i> for i = 1..n and then, only for a
\* multibrand-eligible channel, one key per brand subset of size >= 2 by
\* increasing size and position order; its length is
\* |channels|*n + |eligible|*(2^n - n - 1); brands [A, B] with eligible F2F
\* give the three FACE_TO_FACE keys.
C2_InteractionChannelsExact ==
    (payload.built /\ ~payload.raised) =>
        LET ic == payload.interaction_channels
            n == Len(bundle.brands)
        IN  /\ Len(ic) = Len(bundle.channels) * n
                         + EligibleCount(bundle) * (Pow2(n) - n - 1)
            /\ \A c \in 1..Len(bundle.channels) :
                   \A p \in 1..BlockLen(bundle, bundle.channels[c]) :
                       ic[BlockStart(bundle, c) + p] = ExpectedKey(bundle, c, p)
            /\ (/\ bundle.brands = <<"A", "B">>
                /\ bundle.channels = <<"F2F">>
                /\ bundle.multibrand_channels = <<"F2F">>)
               => ic = <<"REP_FACE_TO_FACE_BRAND1", "REP_FACE_TO_FACE_BRAND2",
                         "REP_FACE_TO_FACE_BRAND1_AND_BRAND2">>

\* a built payload of three brands with one eligible and one other channel
C2_Witness ==
    /\ payload.built
    /\ Len(bundle.brands) = 3
    /\ Len(bundle.channels) = 2
    /\ Len(bundle.multibrand_channels) = 1
    /\ Len(payload.interaction_channels) = 10

\* C3: every selected channel with daily capacity v >= 0 gets
\* capacity_constraints[sales_line][REP_<token>] = floor(v * working_days /
\* cycle_months), never negative, for each of the eight channel labels.
C3_ProratedCapacity ==
    (payload.built /\ ~payload.raised) =>
        \A i \in 1..Len(bundle.channels) :
            LET v == bundle.daily_capacity[i][2]
                got == payload.capacity_constraints[bundle.sales_line]
                           [channel_key(bundle.channels[i])]
            IN  /\ got = (v * bundle.working_days) \div bundle.months
                /\ got >= 0

(***************************************************************************)
(* Claims about the Config Deep-Merger.                                    *)
(***************************************************************************)
\* path p leads through dicts of node to a value
RECURSIVE Has(_, _)
Has(node, p) ==
    IF Len(p) = 0 THEN TRUE
    ELSE /\ node.kind = "map"
         /\ \E i \in 1..Len(node.items) :
                node.items[i][1] = Head(p) /\ Has(node.items[i][2], Tail(p))

\* the value path p leads to
RECURSIVE At(_, _)
At(node, p) ==
    IF Len(p) = 0 THEN node
    ELSE At((CHOOSE it \in {node.items[i] : i \in 1..Len(node.items)} :
                 it[1] = Head(p))[2], Tail(p))

\* every dict at or under node -- through dict values and through dicts that
\* are elements of a list value -- in which path p occurs holds v at p
RECURSIVE AllHold(_, _, _)
AllHold(node, p, v) ==
    /\ Has(node, p) => At(node, p) = v
    /\ \A i \in 1..Len(node.items) :
           LET val == node.items[i][2]
           IN  /\ val.kind = "map" => AllHold(val, p, v)
               /\ val.kind = "list" =>
                      \A j \in 1..Len(val.items) :
                          val.items[j][2].kind = "map" => AllHold(val.items[j][2], p, v)

UpdateValues == {Leaf(2), NoneNode}

RECURSIVE SameTree(_, _)
SameTree(x, y) ==
    /\ x.kind = y.kind
    /\ x.val = y.val
    /\ Len(x.items) = Len(y.items)
    /\ IF x.kind = "map"
       THEN \A i \in 1..Len(x.items) :
                \E j \in 1..Len(y.items) :
                    /\ x.items[i][1] = y.items[j][1]
                    /\ SameTree(x.items[i][2], y.items[j][2])
       ELSE \A i \in 1..Len(x.items) : SameTree(x.items[i][2], y.items[i][2])

\* C4: merging an empty incoming tree returns a tree structurally equal to
\* the base, whatever the remap table holds.
C4_EmptyIncomingIsNoOp ==
    (result.done /\ incoming = EmptyMap) =>
        /\ ~result.raised
        /\ SameTree(result.value, base)

\* the incoming tree has a value at path p
HasValue(node, p) == Has(node, p) /\ At(node, p).kind # "none"

\* C6: for each (destination, source) pair of the remap table, a value the
\* incoming tree has at source is what the result holds at destination; when
\* the incoming tree has no value at source, nothing is written at
\* destination and no error is raised.
C6_RemapCopiesOnlyExistingValues ==
    result.done =>
        \A i \in 1..Len(config_map) :
            LET dest == config_map[i][1]
                src == config_map[i][2]
                merged == merge_and_propagate(base, incoming)
            IN  IF HasValue(incoming, src)
                THEN /\ ~result.raised
                     /\ Has(result.value, dest)
                     /\ SameTree(At(result.value, dest), At(incoming, src))
                ELSE /\ ~result.raised
                     /\ Has(result.value, dest) = Has(merged, dest)
                     /\ Has(merged, dest) =>
                            SameTree(At(result.value, dest), At(merged, dest))

(***************************************************************************)
(* Claims about the run identifier and the warehouse rows.                 *)
(***************************************************************************)
\* submission s has read the maximum stored ID
HasRead(s) == sub[s].pc \notin {"idle"}

\* submission s has appended its business rows to DS_BUSINESS_CONSTRAINTS
HasWritten(s) == sub[s].pushed >= 1 /\ Len(sub[s].output_table_dict[1][2]) > 0

\* C7: the run identifier is read (maximum stored ID) at the review and
\* written with the rows at the submit; two submissions that both read
\* before either writes -- no row was appended between their two reads --
\* obtain the same run identifier, and identifiers stay pairwise distinct
\* only if submissions are serialized: as soon as two submissions are
\* between their read and their write together, two submissions share one.
C7_InterleavedReadsShareId ==
    /\ \A s, t \in Submissions :
           (s # t /\ HasRead(s) /\ HasRead(t) /\ sub[s].seen = sub[t].seen)
               => sub[s].next_id = sub[t].next_id
    /\ (\E s, t \in Submissions :
            s # t /\ sub[s].pc = "reviewed" /\ sub[t].pc = "reviewed")
           => \E u, v \in Submissions :
                  u # v /\ HasRead(u) /\ HasRead(v) /\ sub[u].next_id = sub[v].next_id

\* two submissions read before either wrote, and both have written since
C7_Witness ==
    \E s, t \in Submissions :
        /\ s # t
        /\ sub[s].seen = sub[t].seen
        /\ sub[s].pc = "done" /\ sub[t].pc = "done"
        /\ HasWritten(s) /\ HasWritten(t)
        /\ sub[s].next_id = sub[t].next_id
        /\ Len(warehouse.DS_BUSINESS_CONSTRAINTS) >= sub[s].seen + 2

\* the greatest run number among the first n rows of DS_BUSINESS_CONSTRAINTS,
\* 0 when there is none
StoredMaximum(n) ==
    LET nums == {int_of(warehouse.DS_BUSINESS_CONSTRAINTS[i].ID) : i \in 1..n} \cup {0}
    IN  CHOOSE m \in nums : \A x \in nums : x <= m

\* C8: when submissions are serialized, every submission gets the stored
\* maximum plus one (zero-padded to 7 digits, C_0000001 on an empty table),
\* and a submission that read after another one wrote carries a strictly
\* greater run identifier: no two carry the same one.
C8_SerializedIdsIncrease ==
    \A t \in Submissions :
        HasRead(t) =>
            /\ sub[t].next_id = zero_pad(digits_of(StoredMaximum(sub[t].seen) + 1), IdWidth)
            /\ \A s \in Submissions :
                   (HasWritten(s) /\ sub[s].seen < sub[t].seen)
                       => int_of(sub[s].next_id) < int_of(sub[t].next_id)

\* the two rows state the same fact for the same cycle
SameFactKey(r1, r2) ==
    r1.FACT_ID = r2.FACT_ID /\ r1.UPCOMING_TIME_ID = r2.UPCOMING_TIME_ID

\* C9: a row superseded by a row of a later submission for the same fact
\* key carries MOST_RECENT_FLAG = 'N'.
C9_SupersededRowsFlaggedN ==
    \A name \in {"DS_BUSINESS_CONSTRAINTS", "DS_OCCP_HCP_CONSTRAINTS"} :
        \A i, j \in 1..Len(warehouse[name]) :
            (/\ i < j
             /\ SameFactKey(warehouse[name][i], warehouse[name][j])
             /\ warehouse[name][i].ID # warehouse[name][j].ID)
                => warehouse[name][i].MOST_RECENT_FLAG = "N"

\* C10: every row of the three frames one create_business_constraints_file
\* call returns has an ID column, and it holds the run identifier of that
\* call, C_ and 7 digits.
C10_EveryRowCarriesRunId ==
    \A s \in Submissions :
        sub[s].pc = "reviewed" =>
            \A e \in 1..Len(sub[s].output_table_dict) :
                \A i \in 1..Len(sub[s].output_table_dict[e][2]) :
                    LET row == sub[s].output_table_dict[e][2][i]
                    IN  /\ "ID" \in DOMAIN row
                        /\ row.ID = sub[s].next_id
                        /\ Len(row.ID) = IdWidth

(***************************************************************************)
(* Claims about the warehouse id resolver.                                 *)
(***************************************************************************)
\* the resolver has been run on the form of submission s
Resolved(s) == sub[s].pc \in {"reviewed", "review_failed"}

\* the reference rows of DS_BRAND a brand name stands for: GLOBAL_BRAND
\* equal to the upper-cased name, or DUPIXENT with the upper-cased
\* indication that follows it
BrandRows(brand_name) ==
    LET parts == dupixent_parts(upper(brand_name))
    IN  {i \in 1..Len(df_brand) :
            IF Len(parts) = 2
            THEN df_brand[i].GLOBAL_BRAND = "DUPIXENT" /\ df_brand[i].INDICATION_NAME = parts[2]
            ELSE df_brand[i].GLOBAL_BRAND = upper(brand_name)}

\* the label the channel table is searched for
ChannelLabel(channel, econsent) ==
    IF channel \in {"RTE-Open", "RTE-Sent"}
    THEN (IF econsent THEN "RTE WITH CONSENT" ELSE "RTE WITHOUT CONSENT")
    ELSE IF channel \in DOMAIN CHANNEL_NAME_MAP THEN CHANNEL_NAME_MAP[channel]
    ELSE channel

ChannelRows(channel, econsent) ==
    {i \in 1..Len(df_channel) : df_channel[i].CHANNEL = ChannelLabel(channel, econsent)}

\* the identifiers of the form of submission s that have no reference row:
\* cycle months, brands, channel labels, and (when every brand and channel
\* has a row) the sales team without a sales table or the channel id
\* without a fact
Offending(s) ==
    LET d == sub[s].data
        sl == sub[s].sales_line
        Brands == {d.brands[i] : i \in 1..Len(d.brands)}
        Channels == {d.channels[i] : i \in 1..Len(d.channels)}
                    \cup {d.envelope[e].CHANNEL : e \in 1..Len(d.envelope)}
        basic == {c \in {d.cycle_start, d.ref_cycle_start} :
                     \A i \in 1..Len(df_time) : df_time[i].CYCLE_START_DATE # c}
                 \cup {upper(b) : b \in {x \in Brands : BrandRows(x) = {}}}
                 \cup {ChannelLabel(c, d.econsent) :
                          c \in {x \in Channels : ChannelRows(x, d.econsent) = {}}}
        SalesRows(b) == {i \in 1..Len(df_sales_line) :
                            /\ df_sales_line[i].BRAND_ID \in {df_brand[j].BRAND_ID : j \in BrandRows(b)}
                            /\ df_sales_line[i].SALES_TEAM = sl
                            /\ df_sales_line[i].OCCP_TYPE = upper(d.occp_type)}
        FactRows(b, c) == {i \in 1..Len(df_master) :
                              /\ df_master[i].SALES_TABLE_ID \in
                                     {df_sales_line[j].ID : j \in SalesRows(b)}
                              /\ df_master[i].CHANNEL_ID \in
                                     {df_channel[j].CHANNEL_ID : j \in ChannelRows(c, d.econsent)}}
    IN  IF basic # {} THEN basic
        ELSE {sl : b \in {x \in Brands : SalesRows(x) = {}}}
             \cup {ToString(df_channel[j].CHANNEL_ID) :
                      j \in UNION {ChannelRows(c, d.econsent) :
                                      c \in {x \in Channels :
                                                \E b \in Brands :
                                                    SalesRows(b) # {} /\ FactRows(b, x) = {}}}}

\* C11: when a channel, brand, sales-line, fact or time lookup of the form
\* finds no reference row, create_business_constraints_file ends in the
\* not-found error (ValueError) whose message names an offending
\* identifier, and returns no rows; it returns rows only when every lookup
\* found its row.
C11_LookupMissIsDomainError ==
    \A s \in Submissions :
        Resolved(s) =>
            IF Offending(s) # {}
            THEN /\ sub[s].pc = "review_failed"
                 /\ sub[s].error = "ValueError"
                 /\ sub[s].names \cap Offending(s) # {}
                 /\ sub[s].output_table_dict = <<>>
            ELSE sub[s].pc = "reviewed"

\* C12: get_brand_id of 'DUPIXENT <indication>' returns the BRAND_ID of a
\* row whose brand is DUPIXENT and whose indication is the upper-cased
\* <indication>; without such a row it ends in the not-found error, whose
\* message names DUPIXENT and the indication.
C12_DupixentLookup ==
    \A s \in Submissions :
        Resolved(s) =>
            \A i \in 1..Len(sub[s].data.brands) :
                LET brand_name == sub[s].data.brands[i]
                    parts == dupixent_parts(upper(brand_name))
                    found == get_brand_id(brand_name)
                IN  Len(parts) = 2 =>
                        IF BrandRows(brand_name) # {}
                        THEN /\ ~found.raised
                             /\ found.value \in {df_brand[j].BRAND_ID : j \in BrandRows(brand_name)}
                        ELSE /\ found.raised
                             /\ found.error = "ValueError"
                             /\ {"DUPIXENT", parts[2]} \subseteq found.names

\* C13: map_channels_with_consent returns a list of the length and order of
\* its input, in which RTE-Open and RTE-Sent are RTE WITH CONSENT when the
\* e-consent flag is true and RTE WITHOUT CONSENT when it is false, and the
\* label of any other channel is the same under both flags; the channel
\* table is searched for that label (a miss names it).
C13_ConsentMapping ==
    \A s \in Submissions :
        Resolved(s) =>
            LET d == sub[s].data
                mapped == map_channels_with_consent(d.channels, d.econsent)
                flipped == map_channels_with_consent(d.channels, ~d.econsent)
            IN  /\ Len(mapped) = Len(d.channels)
                /\ \A i \in 1..Len(d.channels) :
                       IF d.channels[i] \in {"RTE-Open", "RTE-Sent"}
                       THEN /\ mapped[i] = (IF d.econsent THEN "RTE WITH CONSENT"
                                            ELSE "RTE WITHOUT CONSENT")
                            /\ get_channel_id(mapped[i]).raised =>
                                   get_channel_id(mapped[i]).names = {mapped[i]}
                       ELSE /\ mapped[i] = flipped[i]
                            /\ mapped[i] = ChannelLabel(d.channels[i], TRUE)
                /\ (/\ sub[s].error = "ValueError"
                    /\ sub[s].names \cap {"RTE WITH CONSENT", "RTE WITHOUT CONSENT"} # {})
                       => (/\ ~d.econsent
                           /\ sub[s].names = {"RTE WITHOUT CONSENT"}
                           /\ \E i \in 1..Len(d.channels) :
                                  d.channels[i] \in {"RTE-Open", "RTE-Sent"})

\* a form with an RTE channel and a consent flag that resolved: its row for
\* the RTE channel carries the fact of RTE WITH CONSENT
C13_Witness ==
    \E s \in Submissions :
        /\ sub[s].pc = "reviewed"
        /\ sub[s].data.econsent
        /\ sub[s].data.channels = <<"Remote", "RTE-Sent">>
        /\ sub[s].data.brands = <<"SOLIQUA">>
        /\ Len(sub[s].output_table_dict[1][2]) = 2
        /\ sub[s].output_table_dict[1][2][2].FACT_ID = 3

\* C14: the call returns one business row per (brand, channel) pair, one
\* brand-specific row per brand when there is more than one brand and none
\* otherwise, and one HCP row per envelope-matrix entry.
C14_RowCounts ==
    \A s \in Submissions :
        sub[s].pc = "reviewed" =>
            LET d == sub[s].data
                out == sub[s].output_table_dict
            IN  /\ Len(out[1][2]) = Len(d.brands) * Len(d.channels)
                /\ Len(out[2][2]) = (IF Len(d.brands) > 1 THEN Len(d.brands) ELSE 0)
                /\ Len(out[3][2]) = Len(d.envelope)

(***************************************************************************)
(* Claims about the envelope rules, the brand combinations and the payload *)
(* of ConstraintBuilder.build.                                             *)
(***************************************************************************)
\* the values the dict (a sequence of <<key, value>> pairs) holds under key
ValuesAt(dict, key) == {dict[j][2] : j \in {i \in 1..Len(dict) : dict[i][1] = key}}

\* C15: in historical mode, for every channel with an envelope rule and the
\* brand at every position i, ENVELOPE_RULES of the payload holds that
\* channel's bounds under REP_<token>_BRAND<i>, the same bounds for every
\* brand; F2F with [1, 3], brands [A, B] and no eligible channel gives
\* [1, 3] under REP_FACE_TO_FACE_BRAND1 and REP_FACE_TO_FACE_BRAND2.
C15_HistoricalEnvelopeRules ==
    (payload.built /\ ~payload.raised /\ ~uses_segment_matrix(bundle)) =>
        \A e \in 1..Len(bundle.envelopes_hist.items) :
            \A i \in 1..Len(bundle.brands) :
                LET rule == bundle.envelopes_hist.items[e]
                    key == channel_key(rule.channel) \o "_BRAND" \o ToString(i)
                IN  ValuesAt(payload.constraints.ENVELOPE_RULES, key)
                        = {<<rule.rule.min_val, rule.rule.max_val>>}

\* the brand names in ascending order
SortedBrandNames == <<"A", "B", "C", "D">>

\* the 1-based rank of brand among the brands of the segment rules, in
\* ascending sorted order
SortedRank(rules, brand) ==
    LET present == {rules[k].brand : k \in 1..Len(rules)}
        place(x) == CHOOSE i \in 1..Len(SortedBrandNames) : SortedBrandNames[i] = x
    IN  Cardinality({x \in present : place(x) <= place(brand)})

\* C16: in segment mode ENVELOPE_RULES has exactly one key
\* REP_<token>_BRAND<i> per (channel, brand) pair of the rules, i being the
\* rank of the brand in ascending sorted order of the brands of the rules,
\* and its value maps each segment of the pair to the rule's [min, max].
C16_SegmentEnvelopeRules ==
    (payload.built /\ ~payload.raised /\ uses_segment_matrix(bundle)) =>
        LET rules == bundle.envelopes_seg.items
            envelope_rules == payload.constraints.ENVELOPE_RULES
            pairs == {<<rules[k].channel, rules[k].brand>> : k \in 1..Len(rules)}
            key(k) == channel_key(rules[k].channel) \o "_BRAND"
                      \o ToString(SortedRank(rules, rules[k].brand))
        IN  /\ Len(envelope_rules) = Cardinality(pairs)
            /\ \A k \in 1..Len(rules) :
                   \E j \in 1..Len(envelope_rules) :
                       /\ envelope_rules[j][1] = key(k)
                       /\ \A m \in 1..Len(envelope_rules) :
                              envelope_rules[m][1] = key(k) => m = j
                       /\ \E n \in 1..Len(envelope_rules[j][2]) :
                              envelope_rules[j][2][n] =
                                  <<rules[k].segment,
                                    <<rules[k].rule.min_val, rules[k].rule.max_val>> >>

\* the tuple of the brands at the positions of S, in the order of the input
RECURSIVE TupleOf(_, _)
TupleOf(brands, S) ==
    IF S = {} THEN <<>> ELSE <<brands[Min(S)]>> \o TupleOf(brands, S \ {Min(S)})

\* the k-th subset of size >= 2 of n positions: smaller subsets first, and
\* within a size in lexicographic order of the positions
NthSubset(n, k) ==
    CHOOSE T \in BrandSubsets(n) :
        Cardinality({U \in BrandSubsets(n) : Before(U, T)}) = k - 1

\* C17: get_combinations(brands) is the enumeration of the subsets of size
\* 2..n of the input, each once, as tuples in input order, by increasing
\* size and within a size in position order: 2^n - n - 1 tuples, none
\* shorter than 2, none at all for n < 2; the call build made for an
\* eligible channel yielded this same sequence.
C17_CombinationsEnumeration ==
    (payload.built /\ ~payload.raised) =>
        LET brands == bundle.brands
            n == Len(brands)
            combos == get_combinations(brands)
            bm == brand_map(brands)
        IN  /\ Len(combos) = Pow2(n) - n - 1
            /\ n < 2 => combos = <<>>
            /\ \A k \in 1..Len(combos) :
                   /\ Len(combos[k]) >= 2
                   /\ combos[k] = TupleOf(brands, NthSubset(n, k))
            /\ \A c \in 1..Len(bundle.channels) :
                   Eligible(bundle, bundle.channels[c]) =>
                       \A k \in 1..Len(combos) :
                           payload.interaction_channels[BlockStart(bundle, c) + n + k]
                               = channel_key(bundle.channels[c]) \o "_" \o
                                 join_and([j \in 1..Len(combos[k]) |-> bm[combos[k][j]]])

\* a payload built for three brands and an eligible channel: the four
\* combinations, the pairs before the triple
C17_Witness ==
    /\ payload.built
    /\ bundle.brands = <<"C", "A", "B">>
    /\ bundle.channels = <<"Phone">>
    /\ bundle.multibrand_channels = <<"Phone">>
    /\ get_combinations(bundle.brands)
           = << <<"C", "A">>, <<"C", "B">>, <<"A", "B">>, <<"C", "A", "B">> >>
    /\ payload.interaction_channels[7] = "REP_PHONE_BRAND1_AND_BRAND2_AND_BRAND3"

C19_PayloadKeys ==
    (payload.built /\ ~payload.raised) =>
        /\ {"country_code", "brand", "interaction_channels", "capacity_constraints",
            "constraints", "CYCLE_NAME", "CYCLE_START_DATE", "CYCLE_END_DATE",
            "months_to_optimize", "actual_date_range", "multibrand_data"}
               \subseteq payload.keys
        /\ "ENVELOPE_RULES" \in DOMAIN payload.constraints
        /\ ("NON_PRESCRIBERS_ENVELOPE_RULES" \in payload.keys)
               <=> (~bundle.non_prescriber.is_none
                    /\ Len(bundle.non_prescriber.items) >= 1)

\* a payload built for a bundle with one non-prescriber rule for F2F
C19_Witness ==
    /\ payload.built
    /\ bundle.channels = <<"F2F", "Remote">>
    /\ ~bundle.non_prescriber.is_none
    /\ Len(bundle.non_prescriber.items) = 1
    /\ "NON_PRESCRIBERS_ENVELOPE_RULES" \in payload.keys
    /\ payload.NON_PRESCRIBERS_ENVELOPE_RULES = << <<"REP_FACE_TO_FACE", <<0, 1>> >> >>

\* C20: the warehouse rows are pushed and the e-mail is sent only after the
\* API call reported success; when the API reports a failure, nothing is
\* written to the warehouse and no e-mail is sent.
C20_PushOnlyAfterApiSuccess ==
    \A s \in Submissions :
        /\ (sub[s].pushed > 0 \/ sub[s].emailed) => sub[s].api_ok
        /\ (sub[s].api_called /\ ~sub[s].api_ok) =>
               (sub[s].pushed = 0 /\ ~sub[s].emailed)

(***************************************************************************)
(* Claims about the submission flow: status messages and retries.          *)
(***************************************************************************)
\* submit_constraints has run for submission s
Submitted(s) == sub[s].attempts > 0

\* the rows at the end of the warehouse table of entry e
StoredTail(out, e) ==
    LET stored == warehouse[out[e][1]]
    IN  SubSeq(stored, Len(stored) - Len(out[e][2]) + 1, Len(stored))

\* C21: submit_constraints never raises; it returns the "API submission
\* failed" status when the response of the API is not success, the
\* "Submission failed" status when a step threw, and the success status only
\* after the API call, the e-mail and the push of every entry that has rows.
C21_StatusOfEveryOutcome ==
    \A s \in Submissions :
        Submitted(s) =>
            /\ ~sub[s].raised
            /\ sub[s].status \in {SubmittedStatus, ApiFailedStatus, SubmissionFailedStatus}
            /\ sub[s].response = "fail" => sub[s].status = ApiFailedStatus
            /\ sub[s].pc = "failed" => sub[s].status = SubmissionFailedStatus
            /\ sub[s].status = SubmittedStatus =>
                   LET out == sub[s].output_table_dict
                   IN  /\ sub[s].response = "success"
                       /\ sub[s].emailed
                       /\ sub[s].pushed = Len(out)
                       /\ \A e \in 1..Len(out) :
                              Len(out[e][2]) <= Len(warehouse[out[e][1]])
                              /\ StoredTail(out, e) = out[e][2]

\* a second attempt that ended in the success status after a first one that
\* threw
C21_Witness ==
    /\ sub[1].attempts = 2
    /\ sub[1].status = SubmittedStatus
    /\ sub[1].posts = 1
    /\ Len(sub[1].output_table_dict[3][2]) > 0

\* C22: across the attempts of one submission the API accepts the payload
\* at most once, also when an attempt failed after the API had accepted it
\* and the submission is retried.
C22_PostedAtMostOnce ==
    \A s \in Submissions : sub[s].posts <= 1

(***************************************************************************)
(* Claims about the validation of envelope rules.                          *)
(***************************************************************************)
\* row i carries two integers lo and hi with 0 <= lo <= hi
ValidRow(i) ==
    /\ ~is_none(form.rows[i].Min)
    /\ ~is_none(form.rows[i].Max)
    /\ 0 <= value_of(form.rows[i].Min)
    /\ value_of(form.rows[i].Min) <= value_of(form.rows[i].Max)

\* every row carries two integers
Bounded == \A i \in 1..Len(form.rows) : ~is_none(form.rows[i].Min) /\ ~is_none(form.rows[i].Max)

\* C23: the construction of HCPEnvelopeRule and validate_envelope_matrix
\* accept a rule of two integer bounds exactly when 0 <= min <= max and end
\* in an error otherwise, so the envelopes the form returns hold no rule
\* with a negative bound or with max < min.
C23_EnvelopeRuleValidation ==
    /\ \A i \in 1..Len(form.rows) :
           HCPEnvelopeRule_init(form.rows[i].Min, form.rows[i].Max).raised
               <=> ~ValidRow(i)
    /\ form.pc \in {"validated", "invalid"} /\ Bounded =>
           /\ form.pc = "validated" <=> \A i \in 1..Len(form.rows) : ValidRow(i)
           /\ form.pc = "invalid" => form.error = "ValueError"
    /\ form.pc \in {"returned", "rejected", "raised"} =>
           /\ form.pc = "returned" <=> \A i \in 1..Len(form.rows) : ValidRow(i)
           /\ form.pc # "returned" => form.error # "None" /\ form.envelopes = <<>>
           /\ form.pc = "returned" =>
                  /\ Len(form.envelopes) = Len(form.rows)
                  /\ \A i \in 1..Len(form.envelopes) :
                         LET rule == form.envelopes[i].rule
                         IN  /\ rule.min_val = form.rows[i].Min
                             /\ rule.max_val = form.rows[i].Max
                             /\ 0 <= value_of(rule.min_val)
                             /\ value_of(rule.min_val) <= value_of(rule.max_val)

\* validate_envelope_matrix has rejected a table whose second row has a
\* negative minimum
C23_Witness ==
    /\ form.pc = "invalid"
    /\ Len(form.rows) = 2
    /\ form.rows[1] = [Min |-> Some(1), Max |-> Some(2)]
    /\ form.rows[2] = [Min |-> Some(0 - 1), Max |-> Some(2)]

(***************************************************************************)
(* Claims about the leaf propagation and the merge as a whole.             *)
(***************************************************************************)
\* the key sequence trail ends with path
EndsWith(trail, path) ==
    /\ Len(path) <= Len(trail)
    /\ SubSeq(trail, Len(trail) - Len(path) + 1, Len(trail)) = path

\* after is before with value written at the locations whose trailing key
\* sequence equals path and with nothing else changed.  trail is the key
\* sequence that leads to the node; the keys of a dict that is an element of
\* a list are counted from that dict.
RECURSIVE WrittenAtPathOnly(_, _, _, _, _)
WrittenAtPathOnly(before, after, trail, path, value) ==
    IF EndsWith(trail, path) THEN after = value
    ELSE /\ after.kind = before.kind
         /\ after.val = before.val
         /\ Len(after.items) = Len(before.items)
         /\ \A i \in 1..Len(before.items) :
                /\ after.items[i][1] = before.items[i][1]
                /\ WrittenAtPathOnly(before.items[i][2], after.items[i][2],
                                     IF before.kind = "list" THEN <<>>
                                     ELSE Append(trail, before.items[i][1]),
                                     path, value)

\* C25: the propagation of a recorded (path, value) pair writes value at
\* every location of the merged tree whose trailing key sequence equals
\* path, inside dicts that are elements of lists too, and changes no
\* location whose trailing key sequence is different.
C25_PropagationWritesOnlyAtPath ==
    (result.done /\ ~result.raised) =>
        \A p \in PathsOver(Keys3, MaxDepth) :
            incoming = SingleLeafDoc(p, Leaf(2)) =>
                WrittenAtPathOnly(merge(base, incoming).dst, result.value,
                                  <<>>, p, Leaf(2))

\* C26: with an empty remap table the merged tree holds, for every leaf
\* (path, value) of the incoming tree, value at path, whatever the base
\* and the incoming tree are and whatever the order of the incoming keys.
C26_IncomingLeavesWin ==
    (result.done /\ config_map = <<>>) =>
        /\ ~result.raised
        /\ LET updates == leaves(<<>>, incoming)
           IN  \A i \in 1..Len(updates) :
                   /\ Has(result.value, updates[i][1])
                   /\ At(result.value, updates[i][1]) = updates[i][2]

\* node holds an object of incoming
RECURSIVE HoldsAlias(_)
HoldsAlias(node) ==
    \/ node.kind = "alias"
    \/ /\ node.kind \in {"map", "list"}
       /\ \E i \in 1..Len(node.items) : HoldsAlias(node.items[i][2])

\* C27: deep_merge_configs changes neither base nor incoming, and the tree
\* it returns shares no dict or list with them, whatever the remap table,
\* a destination under the destination of an earlier entry included.
C27_ArgumentsNeitherChangedNorShared ==
    [][result'.done =>
           /\ base' = base
           /\ incoming' = incoming
           /\ ~result'.raised => ~HoldsAlias(result'.value)]_vars

\* the tree and the outcome of merging incoming once more, into the tree
\* the first merge returned
MergedAgain == deep_merge_configs(result.value, incoming, config_map)

\* no destination of the remap table has more than two segments, and none
\* is a prefix of another one
ShallowRemap(cmap) ==
    \A i \in 1..Len(cmap) :
        /\ Len(cmap[i][1]) <= 2
        /\ \A j \in 1..Len(cmap) : i # j => ~IsPrefix(cmap[i][1], cmap[j][1])

ConsentRow(s, value) ==
    \E i \in 1..Len(sub[s].data.rows) :
        /\ sub[s].data.rows[i][2] = excel_text.EConsentRequired
        /\ sub[s].data.rows[i][3] = value

\* the labels the RTE channels of a reviewed summary are looked up as
RteLabels(s) ==
    LET d == sub[s].data
        mapped == map_channels_with_consent(d.channels, d.econsent)
    IN  {mapped[i] : i \in {j \in 1..Len(d.channels) :
                               d.channels[j] \in {"RTE-Open", "RTE-Sent"}}}

\* C29: the e-consent flag of create_business_constraints_file is the value
\* of the row 'eConsent required for RTE?' of the summary: with 'Yes' the
\* RTE channels are looked up as 'RTE WITH CONSENT', with 'No' as
\* 'RTE WITHOUT CONSENT'.
C29_ConsentFlagFromSummary ==
    \A s \in Submissions :
        Resolved(s) =>
            /\ ConsentRow(s, excel_text.Yes) =>
                   sub[s].data.econsent /\ RteLabels(s) = {"RTE WITH CONSENT"}
            /\ ConsentRow(s, excel_text.No) =>
                   ~sub[s].data.econsent /\ RteLabels(s) = {"RTE WITHOUT CONSENT"}

\* the brand suffixes of the interaction keys of a bundle: a BRAND<i> label,
\* or the labels of a combination joined by _AND_
BrandSuffixes(brands) ==
    LET bm == brand_map(brands)
        combos == get_combinations(brands)
    IN  {bm[brands[i]] : i \in 1..Len(brands)}
        \cup {join_and([j \in 1..Len(combos[i]) |-> bm[combos[i][j]]]) :
                 i \in 1..Len(combos)}

\* C30: in a built payload one channel has the same bare key everywhere:
\* every key of NON_PRESCRIBERS_ENVELOPE_RULES is one of the REP_<token>
\* keys of capacity_constraints and of channel_cols_all, and every
\* interaction key is the bare key of its channel followed by a brand
\* suffix, for each of the eight channel labels.
C30_OneBareKeyPerChannel ==
    (payload.built /\ ~payload.raised) =>
        /\ \A i \in 1..Len(payload.NON_PRESCRIBERS_ENVELOPE_RULES) :
               LET key == payload.NON_PRESCRIBERS_ENVELOPE_RULES[i][1]
               IN  /\ key \in DOMAIN payload.capacity_constraints[bundle.sales_line]
                   /\ \E j \in 1..Len(payload.channel_rep_col) :
                          payload.channel_rep_col[j] = key
        /\ \A k \in DOMAIN payload.combined_interactions_dict :
               \A i \in 1..Len(payload.combined_interactions_dict[k]) :
                   payload.combined_interactions_dict[k][i]
                       \in {k \o "_" \o suffix : suffix \in BrandSuffixes(bundle.brands)}

====
